---- MODULE Spec2Model ----
(***************************************************************************)
(* Model of the scoring core of the ATS resume analyzer:                   *)
(*   scoring/similarity.py   SimilarityCalculator                          *)
(*   scoring/ats_score.py    ATSScoreCalculator                            *)
(*   npl/skill_extractor.py  SkillExtractor                                *)
(*   npl/resume_parser.py    ResumeParser                                  *)
(*   api/routes.py           the request handlers                          *)
(*                                                                         *)
(* Text.  A Python str is a sequence of lexemes.  A lexeme is a run of     *)
(* characters of one class (letters, digits, white space, punctuation)     *)
(* that no pattern of the program splits; the tables below give, for each  *)
(* lexeme, what str.lower, the regex classes \d \s \w and len see in it.   *)
(* The lexeme "bullet" is the character U+2022.                            *)
(*                                                                         *)
(* Numbers.  A Python float is modelled as the real number it stands for,  *)
(* written as an integer count of 1/SCALE.  SCALE is a multiple of every   *)
(* denominator the bounded inputs can produce, so sums, products with the  *)
(* weights and divisions by set sizes are exact; the one irrational value, *)
(* the cosine, is truncated to 1/CosPrecision.                             *)
(*                                                                         *)
(* None is the empty tuple <<>> and a present optional value v is <<v>>.   *)
(***************************************************************************)
EXTENDS Integers, Sequences, FiniteSets, TLC

VARIABLES
    pc,     \* "call": the operation op is about to run on args; "done": it has ended
    op,     \* name of the operation invoked
    args,   \* the arguments of the call (a record, one field per parameter)
    ret,    \* the value returned (a record with a field kind), NoneValue before the return
    exc,    \* the exception that left the call, "none" when it returned
    heap,   \* the caller's candidate records (the dicts rank_candidates is handed), by position
    skills_data,        \* SkillExtractor.skills_data
    skill_categories,   \* SkillExtractor.skill_categories
    parser,     \* the fields of the ResumeParser instance the handlers share
    frames      \* the handler coroutines of the requests being served, by request

vars == <<pc, op, args, ret, exc, heap, skills_data, skill_categories, parser, frames>>

(***************************************************************************)
(* Bounds                                                                  *)
(***************************************************************************)
MaxPhrases == 2
MaxSkills == 2
MaxCandidates == 3
MaxKeywords == 2

(***************************************************************************)
(* Lexemes                                                                 *)
(***************************************************************************)
Digits == {"0", "1", "2", "5"}
Spaces == {" ", "\t"}
Puncts == {"+", "-", ".", "@", "%", "$", "|", "bullet"}
LowerWords == {"python", "aws", "react", "experience", "year", "s", "of", "with", "team",
               "education", "skills", "summary", "degree", "gpa", "m", "com",
               "developed", "created", "managed", "led", "implemented"}
UpperWords == {"Python", "AWS", "React", "Experience"}

\* str.lower, one lexeme
Lower(a) ==
    CASE a = "Python" -> "python"
      [] a = "AWS" -> "aws"
      [] a = "React" -> "react"
      [] a = "Experience" -> "experience"
      [] OTHER -> a

\* len, one lexeme
CharLen(a) ==
    CASE Lower(a) = "python" -> 6
      [] Lower(a) = "aws" -> 3
      [] Lower(a) = "react" -> 5
      [] Lower(a) = "experience" -> 10
      [] a = "year" -> 4
      [] a = "of" -> 2
      [] a = "with" -> 4
      [] a = "team" -> 4
      [] a = "education" -> 9
      [] a = "skills" -> 6
      [] a = "summary" -> 7
      [] a = "degree" -> 6
      [] a = "gpa" -> 3
      [] a = "com" -> 3
      [] a = "developed" -> 9
      [] a = "created" -> 7
      [] a = "managed" -> 7
      [] a = "led" -> 3
      [] a = "implemented" -> 11
      [] OTHER -> 1

IsDigit(a) == a \in Digits
IsSpace(a) == a \in Spaces
\* [a-z0-9]
IsLowerAlnum(a) == a \in LowerWords \cup Digits
\* \w
IsWordChar(a) == a \in LowerWords \cup UpperWords \cup Digits

\* value of one decimal digit
DigitVal(a) ==
    CASE a = "0" -> 0
      [] a = "1" -> 1
      [] a = "2" -> 2
      [] a = "5" -> 5

(***************************************************************************)
(* str, list and set helpers of the Python runtime                         *)
(***************************************************************************)
NoneValue == [kind |-> "None"]

IsNone(o) == o = <<>>
Some(v) == <<v>>
Get(o) == o[1]

Range(s) == {s[i] : i \in DOMAIN s}

\* str.lower()
lower(str) == [i \in DOMAIN str |-> Lower(str[i])]

\* len(str)
RECURSIVE StrLen(_)
StrLen(str) == IF str = <<>> THEN 0 ELSE CharLen(Head(str)) + StrLen(Tail(str))

\* int(str) of a run of decimal digits
RECURSIVE IntOf(_)
IntOf(ds) ==
    IF ds = <<>> THEN 0
    ELSE IntOf(SubSeq(ds, 1, Len(ds) - 1)) * 10 + DigitVal(ds[Len(ds)])

\* str.split(): the maximal runs of non-white-space, in order
RECURSIVE SplitFrom(_, _, _)
SplitFrom(str, i, cur) ==
    IF i > Len(str)
    THEN IF cur = <<>> THEN <<>> ELSE <<cur>>
    ELSE IF IsSpace(str[i])
         THEN (IF cur = <<>> THEN <<>> ELSE <<cur>>) \o SplitFrom(str, i + 1, <<>>)
         ELSE SplitFrom(str, i + 1, Append(cur, str[i]))

split(str) == SplitFrom(str, 1, <<>>)

\* needle in haystack (str)
Contains(haystack, needle) ==
    \E i \in 0..(Len(haystack) - Len(needle)) :
        \A k \in 1..Len(needle) : haystack[i + k] = needle[k]

\* max(list) of a non-empty list of ints
MaxOf(s) == CHOOSE m \in Range(s) : \A x \in Range(s) : x <= m

\* s[:n]
Take(s, n) == SubSeq(s, 1, IF Len(s) < n THEN Len(s) ELSE n)

\* list(a_set): the elements in the iteration order of the set, which the
\* language leaves to the hash values; order is one enumeration of the universe
RECURSIVE ListOfSet(_, _)
ListOfSet(S, order) ==
    IF order = <<>> THEN <<>>
    ELSE (IF Head(order) \in S THEN <<Head(order)>> ELSE <<>>) \o ListOfSet(S, Tail(order))

\* sum(f[x] for x in S)
RECURSIVE SumOver(_, _)
SumOver(f, S) ==
    IF S = {} THEN 0
    ELSE LET x == CHOOSE y \in S : TRUE IN f[x] + SumOver(f, S \ {x})

(***************************************************************************)
(* float                                                                   *)
(***************************************************************************)
RECURSIVE Gcd(_, _)
Gcd(a, b) == IF b = 0 THEN a ELSE Gcd(b, a % b)

RECURSIVE LcmUpTo(_)
LcmUpTo(n) == IF n <= 1 THEN 1 ELSE LET l == LcmUpTo(n - 1) IN (l \div Gcd(l, n)) * n

\* the largest size of a token set, skill set or keyword list the inputs produce
MaxDen == 2 * MaxPhrases + 3

\* the cosine is kept to 1/CosPrecision
CosPrecision == 1000

\* one unit of score is 1/SCALE
SCALE == CosPrecision * LcmUpTo(MaxDen)

\* math.sqrt, rounded down: the largest k in lo..hi with k * k <= x
RECURSIVE IsqrtIn(_, _, _)
IsqrtIn(x, lo, hi) ==
    IF lo >= hi THEN lo
    ELSE LET mid == (lo + hi + 1) \div 2
         IN IF mid * mid <= x THEN IsqrtIn(x, mid, hi) ELSE IsqrtIn(x, lo, mid - 1)

(***************************************************************************)
(* scoring/similarity.py: SimilarityCalculator                             *)
(***************************************************************************)
\* the stop words the lexemes can spell
STOP_WORDS == {<<"of">>, <<"with">>}

\* re.sub(r'[^a-z0-9\s]', ' ', text)
StripSpecial(str) ==
    [i \in DOMAIN str |-> IF IsLowerAlnum(str[i]) \/ IsSpace(str[i]) THEN str[i] ELSE " "]

preprocess_text(text) ==
    LET tokens == split(StripSpecial(lower(text)))
    IN SelectSeq(tokens, LAMBDA t : t \notin STOP_WORDS /\ StrLen(t) > 2)

\* collections.Counter(tokens)
Counter(tokens) ==
    [t \in Range(tokens) |-> Cardinality({i \in DOMAIN tokens : tokens[i] = t})]

\* vec1.get(term, 0)
GetOr0(vec, term) == IF term \in DOMAIN vec THEN vec[term] ELSE 0

\* the dot product divided by the squared magnitude of the first vector only
cosine_similarity_unnormalised(vec1, vec2) ==
    LET all_terms == DOMAIN vec1 \cup DOMAIN vec2
        dot_product == SumOver([term \in all_terms |-> GetOr0(vec1, term) * GetOr0(vec2, term)],
                               all_terms)
        mag1sq == SumOver([term \in DOMAIN vec1 |-> vec1[term] * vec1[term]], DOMAIN vec1)
    IN IF mag1sq = 0 THEN 0 ELSE (SCALE \div mag1sq) * dot_product

\* vec1 and vec2 hold count/total; total1 and total2 cancel in
\* dot_product / (mag1 * mag2), which is computed here over the counts
cosine_similarity(vec1, vec2) ==
    LET all_terms == DOMAIN vec1 \cup DOMAIN vec2
        dot_product == SumOver([term \in all_terms |-> GetOr0(vec1, term) * GetOr0(vec2, term)],
                               all_terms)
        mag1sq == SumOver([term \in DOMAIN vec1 |-> vec1[term] * vec1[term]], DOMAIN vec1)
        mag2sq == SumOver([term \in DOMAIN vec2 |-> vec2[term] * vec2[term]], DOMAIN vec2)
    IN IF mag1sq = 0 \/ mag2sq = 0
       THEN 0
       ELSE IsqrtIn((CosPrecision * CosPrecision * dot_product * dot_product)
                        \div (mag1sq * mag2sq), 0, CosPrecision)
            * (SCALE \div CosPrecision)

\* the union counted as len(set1) + len(set2), the shared tokens twice
jaccard_similarity_sum_of_sizes(set1, set2) ==
    LET intersection == Cardinality(set1 \cap set2)
        union == Cardinality(set1) + Cardinality(set2)
    IN IF union > 0 THEN (SCALE \div union) * intersection ELSE 0

\* the intersection divided by the size of the first set
jaccard_similarity_of_first(set1, set2) ==
    LET intersection == Cardinality(set1 \cap set2)
        first == Cardinality(set1)
    IN IF first > 0 THEN (SCALE \div first) * intersection ELSE 0

\* the intersection divided by the size of the smaller set
jaccard_similarity_of_smaller(set1, set2) ==
    LET intersection == Cardinality(set1 \cap set2)
        smaller == IF Cardinality(set1) < Cardinality(set2)
                   THEN Cardinality(set1) ELSE Cardinality(set2)
    IN IF smaller > 0 THEN (SCALE \div smaller) * intersection ELSE 0

jaccard_similarity(set1, set2) ==
    LET intersection == Cardinality(set1 \cap set2)
        union == Cardinality(set1 \cup set2)
    IN IF union > 0 THEN (SCALE \div union) * intersection ELSE 0

\* the shared terms divided by the number of the resume's terms
OverlapOfResume(resume_terms, job_terms) ==
    IF resume_terms # {}
    THEN (SCALE \div Cardinality(resume_terms)) * Cardinality(job_terms \cap resume_terms)
    ELSE 0

\* overlap = len(job_terms & resume_terms) / len(job_terms) if job_terms else 0
Overlap(resume_terms, job_terms) ==
    IF job_terms # {}
    THEN (SCALE \div Cardinality(job_terms)) * Cardinality(job_terms \cap resume_terms)
    ELSE 0

\* the dict of the three measures and their weighted sum
TextSimilarity(cosine_sim, jaccard_sim, overlap) ==
    [cosine_similarity |-> cosine_sim,
     jaccard_similarity |-> jaccard_sim,
     overlap_score |-> overlap,
     overall_similarity |-> (cosine_sim * 4 + jaccard_sim * 3 + overlap * 3) \div 10]

\* the measures of two token lists
TokenSimilarity(tokens1, tokens2) ==
    TextSimilarity(cosine_similarity(Counter(tokens1), Counter(tokens2)),
                   jaccard_similarity(Range(tokens1), Range(tokens2)),
                   Overlap(Range(tokens1), Range(tokens2)))

calculate_text_similarity(text1, text2) ==
    TokenSimilarity(preprocess_text(text1), preprocess_text(text2))

\* the names as they are written, without .lower()
LowerSetCaseSensitive(skills) == {skills[i] : i \in DOMAIN skills}

\* {s.lower() for s in skills}
LowerSet(skills) == {lower(skills[i]) : i \in DOMAIN skills}

\* the dict with a job that asks for no skill matched in full
SkillMatchFullWhenNoneAsked(resume_skills_set, job_skills_set, order) ==
    [match_percentage |-> IF job_skills_set # {}
                          THEN ((100 * SCALE) \div Cardinality(job_skills_set))
                               * Cardinality(resume_skills_set \cap job_skills_set)
                          ELSE 100 * SCALE,
     matched_skills |-> ListOfSet(resume_skills_set \cap job_skills_set, order),
     missing_skills |-> ListOfSet(job_skills_set \ resume_skills_set, order),
     extra_skills |-> ListOfSet(resume_skills_set \ job_skills_set, order),
     matched_count |-> Cardinality(resume_skills_set \cap job_skills_set),
     required_count |-> Cardinality(job_skills_set)]

\* the dict calculate_skill_match returns for the two sets of lowercase names
SkillMatch(resume_skills_set, job_skills_set, order) ==
    [match_percentage |-> IF job_skills_set # {}
                          THEN ((100 * SCALE) \div Cardinality(job_skills_set))
                               * Cardinality(resume_skills_set \cap job_skills_set)
                          ELSE 0,
     matched_skills |-> ListOfSet(resume_skills_set \cap job_skills_set, order),
     missing_skills |-> ListOfSet(job_skills_set \ resume_skills_set, order),
     extra_skills |-> ListOfSet(resume_skills_set \ job_skills_set, order),
     matched_count |-> Cardinality(resume_skills_set \cap job_skills_set),
     required_count |-> Cardinality(job_skills_set)]

calculate_skill_match(resume_skills, job_skills, order) ==
    SkillMatch(LowerSet(resume_skills), LowerSet(job_skills), order)

(***************************************************************************)
(* The two experience patterns of calculate_experience_match.  A match is  *)
(* <<end, group1>>: the position after its last lexeme and int(group(1));  *)
(* NoMatch is <<0, 0>>.  Each quantifier is greedy, and no shorter choice  *)
(* can succeed where the greedy one fails: what follows \d+ is never a     *)
(* digit, what follows \s* and \s+ is never white space, and the optional  *)
(* pieces ("+", "s", "of ") are followed by something that they are not.   *)
(***************************************************************************)
NoMatch == <<0, 0>>

At(str, p, a) == p <= Len(str) /\ str[p] = a
SpaceAt(str, p) == p <= Len(str) /\ IsSpace(str[p])
DigitAt(str, p) == p <= Len(str) /\ IsDigit(str[p])

\* the position after the run of digits (\d+) that starts at p
RECURSIVE AfterDigits(_, _)
AfterDigits(str, p) == IF DigitAt(str, p) THEN AfterDigits(str, p + 1) ELSE p

\* the position after the white space (\s*) that starts at p
RECURSIVE AfterSpaces(_, _)
AfterSpaces(str, p) == IF SpaceAt(str, p) THEN AfterSpaces(str, p + 1) ELSE p

\* the position after \+? tried at p
AfterPlus(str, p) == IF At(str, p, "+") THEN p + 1 ELSE p

\* the position after years? when "year" is at p
AfterYears(str, p) == IF At(str, p + 1, "s") THEN p + 2 ELSE p + 1

\* the position after (?:of\s+)? tried at p
AfterOf(str, p) ==
    IF At(str, p, "of") /\ SpaceAt(str, p + 1) THEN AfterSpaces(str, p + 1) ELSE p

\* r'(\d+)\+?\s*years?\s+(?:of\s+)?experience' tried at position p
MatchYearsExperience(str, p) ==
    IF ~DigitAt(str, p) THEN NoMatch
    ELSE LET d == AfterDigits(str, p)
             y == AfterSpaces(str, AfterPlus(str, d))
             s == AfterYears(str, y)
             o == AfterOf(str, AfterSpaces(str, s))
         IN IF At(str, y, "year") /\ SpaceAt(str, s) /\ At(str, o, "experience")
            THEN <<o + 1, IntOf(SubSeq(str, p, d - 1))>>
            ELSE NoMatch

\* r'experience\s+(?:of\s+)?(\d+)\+?\s*years?' tried at position p
MatchExperienceYears(str, p) ==
    IF ~(At(str, p, "experience") /\ SpaceAt(str, p + 1)) THEN NoMatch
    ELSE LET o == AfterOf(str, AfterSpaces(str, p + 1))
             d == AfterDigits(str, o)
             y == AfterSpaces(str, AfterPlus(str, d))
         IN IF DigitAt(str, o) /\ At(str, y, "year")
            THEN <<AfterYears(str, y), IntOf(SubSeq(str, o, d - 1))>>
            ELSE NoMatch

Match(pattern, str, p) ==
    IF pattern = 1 THEN MatchYearsExperience(str, p) ELSE MatchExperienceYears(str, p)

\* re.search in place of re.finditer: the first match only
RECURSIVE FindFirst(_, _, _)
FindFirst(pattern, str, p) ==
    IF p > Len(str) THEN <<>>
    ELSE IF Match(pattern, str, p) = NoMatch
         THEN FindFirst(pattern, str, p + 1)
         ELSE <<Match(pattern, str, p)[2]>>

\* [int(m.group(1)) for m in re.finditer(pattern, str)]: the scan tries each
\* position from the left and resumes after the end of a match
RECURSIVE FindIter(_, _, _)
\* the rest of the scan once the attempt at p has given m
FindIterFrom(pattern, str, p, m) ==
    IF m = NoMatch
    THEN FindIter(pattern, str, p + 1)
    ELSE <<m[2]>> \o FindIter(pattern, str, m[1])

FindIter(pattern, str, p) ==
    IF p > Len(str) THEN <<>> ELSE FindIterFrom(pattern, str, p, Match(pattern, str, p))

\* the branch taken by `if required_years:`: None and 0 are both false
Truthy(required_years) == ~IsNone(required_years) /\ Get(required_years) # 0

ExperienceLevel(candidate_years) ==
    IF candidate_years >= 10 THEN "Senior/Expert"
    ELSE IF candidate_years >= 5 THEN "Senior"
    ELSE IF candidate_years >= 2 THEN "Mid-Level"
    ELSE IF candidate_years >= 1 THEN "Junior"
    ELSE "Entry Level"

\* years_found: the matches of the first pattern, then those of the second
YearsFound(text_lower) == FindIter(1, text_lower, 1) \o FindIter(2, text_lower, 1)

\* candidate_years = max(years_found) if years_found else 0
CandidateYears(years_found) == IF years_found # <<>> THEN MaxOf(years_found) ELSE 0

\* the dict with a requirement that is met when no years are required
ExperienceMatchMetByDefault(candidate_years, required_years) ==
    [candidate_years |-> candidate_years,
     required_years |-> required_years,
     meets_requirement |-> IF Truthy(required_years)
                           THEN candidate_years >= Get(required_years)
                           ELSE TRUE,
     experience_level |-> ExperienceLevel(candidate_years)]

\* the dict calculate_experience_match returns for a value of candidate_years
ExperienceMatch(candidate_years, required_years) ==
    [candidate_years |-> candidate_years,
     required_years |-> required_years,
     meets_requirement |-> IF Truthy(required_years)
                           THEN candidate_years >= Get(required_years)
                           ELSE FALSE,
     experience_level |-> ExperienceLevel(candidate_years)]

calculate_experience_match(resume_text, required_years) ==
    ExperienceMatch(CandidateYears(YearsFound(lower(resume_text))), required_years)

\* a recommendation: the rule that wrote it and the values the f-string formats
Recommendation(rule, detail) == [rule |-> rule, detail |-> detail]

\* recommendations.append(x) when cond
AppendIf(cond, list, x) == IF cond THEN Append(list, x) ELSE list

\* the rules written as one if/elif chain: at most one skill rule fires
_generate_recommendations_chained(skill_match, experience_match, overall_score) ==
    LET r0 == <<>>
        r1 == AppendIf(skill_match.match_percentage < 70 * SCALE, r0,
                       Recommendation("focus_skills", Take(skill_match.missing_skills, 5)))
        r2 == AppendIf(~(skill_match.match_percentage < 70 * SCALE)
                          /\ skill_match.match_percentage < 50 * SCALE, r1,
                       Recommendation("training", <<>>))
        r3 == AppendIf(~experience_match.meets_requirement, r2,
                       Recommendation("experience_gap", experience_match.required_years))
        r4 == IF overall_score < 60 * SCALE
              THEN Append(r3, Recommendation("poor_fit", <<>>))
              ELSE IF overall_score < 80 * SCALE
                   THEN Append(r3, Recommendation("highlight", <<>>))
                   ELSE r3
    IN IF r4 = <<>> THEN <<Recommendation("strong_match", <<>>)>> ELSE r4

_generate_recommendations(skill_match, experience_match, overall_score) ==
    LET r0 == <<>>
        r1 == AppendIf(skill_match.match_percentage < 70 * SCALE, r0,
                       Recommendation("focus_skills", Take(skill_match.missing_skills, 5)))
        r2 == AppendIf(skill_match.match_percentage < 50 * SCALE, r1,
                       Recommendation("training", <<>>))
        r3 == AppendIf(~experience_match.meets_requirement, r2,
                       Recommendation("experience_gap", experience_match.required_years))
        r4 == IF overall_score < 60 * SCALE
              THEN Append(r3, Recommendation("poor_fit", <<>>))
              ELSE IF overall_score < 80 * SCALE
                   THEN Append(r3, Recommendation("highlight", <<>>))
                   ELSE r3
    IN IF r4 = <<>> THEN <<Recommendation("strong_match", <<>>)>> ELSE r4

MatchLevel(overall_score) ==
    IF overall_score >= 80 * SCALE THEN "Excellent Match"
    ELSE IF overall_score >= 70 * SCALE THEN "Good Match"
    ELSE IF overall_score >= 60 * SCALE THEN "Fair Match"
    ELSE "Poor Match"

\* weights that give the text similarity and the skill match equal shares
weights_even == [text_similarity |-> 40, skill_match |-> 40, experience_match |-> 20]

\* weights, in hundredths
weights == [text_similarity |-> 25, skill_match |-> 50, experience_match |-> 25]

OverallScore(text_similarity, skill_match, experience_match) ==
    text_similarity.overall_similarity * weights.text_similarity
    + (skill_match.match_percentage \div 100) * weights.skill_match
    + (((IF experience_match.meets_requirement THEN 100 ELSE 50) * SCALE) \div 100)
          * weights.experience_match

\* the dict calculate_job_match_score returns for the three component results
\* and their weighted sum
JobMatch(text_similarity, skill_match, experience_match, overall_score) ==
    [kind |-> "dict",
     overall_score |-> overall_score,
     match_level |-> MatchLevel(overall_score),
     text_similarity |-> text_similarity,
     skill_match |-> skill_match,
     experience_match |-> experience_match,
     recommendations |-> _generate_recommendations(skill_match, experience_match,
                                                   overall_score)]

\* the three component results, weighted and assembled
JobMatchOf(text_similarity, skill_match, experience_match) ==
    JobMatch(text_similarity, skill_match, experience_match,
             OverallScore(text_similarity, skill_match, experience_match))

calculate_job_match_score(resume_text, job_description, resume_skills, job_skills, required_years, order) ==
    JobMatchOf(calculate_text_similarity(resume_text, job_description),
               calculate_skill_match(resume_skills, job_skills, order),
               calculate_experience_match(resume_text, required_years))

\* a sort that puts an element in front of the elements of equal key
RECURSIVE InsertDescendingUnstable(_, _, _)
InsertDescendingUnstable(sorted, x, key) ==
    IF sorted = <<>> THEN <<x>>
    ELSE IF key[Head(sorted)] > key[x]
         THEN <<Head(sorted)>> \o InsertDescendingUnstable(Tail(sorted), x, key)
         ELSE <<x>> \o sorted

\* list.sort(key=..., reverse=True) on a list of references: each element goes
\* behind every element whose key is not smaller, so equal keys keep their order
RECURSIVE InsertDescending(_, _, _)
InsertDescending(sorted, x, key) ==
    IF sorted = <<>> THEN <<x>>
    ELSE IF key[Head(sorted)] >= key[x]
         THEN <<Head(sorted)>> \o InsertDescending(Tail(sorted), x, key)
         ELSE <<x>> \o sorted

RECURSIVE SortDescending(_, _)
SortDescending(list, key) ==
    IF list = <<>> THEN <<>>
    ELSE InsertDescending(SortDescending(SubSeq(list, 1, Len(list) - 1), key),
                          list[Len(list)], key)

\* candidate['match_score'] = ...; candidate['match_level'] = ...;
\* candidate['match_details'] = ...: the fields of the dict candidate after the stores
Scored(candidate, match_result) ==
    [filename |-> candidate.filename,
     resume_text |-> candidate.resume_text,
     skills |-> candidate.skills,
     match_score |-> match_result.overall_score,
     match_level |-> match_result.match_level,
     match_details |-> match_result]

\* candidates is the list of references 1..Len(objects) to the caller's dicts
\* objects; the result is the dicts after the call and the returned list
\* scored_candidates.sort(key=lambda x: x['match_score'], reverse=True)
Ranked(scored) ==
    [objects |-> scored,
     list |-> SortDescending([i \in DOMAIN scored |-> i],
                             [i \in DOMAIN scored |-> scored[i].match_score])]

rank_candidates(objects, job_description, job_skills, order) ==
    Ranked([i \in DOMAIN objects |->
              Scored(objects[i],
                     calculate_job_match_score(objects[i].resume_text, job_description,
                                               objects[i].skills, job_skills, <<>>, order))])

(***************************************************************************)
(* npl/skill_extractor.py: SkillExtractor                                  *)
(*                                                                         *)
(* skills_data is the dict in insertion order: a sequence of entries       *)
(* [key, category, weight, original]; weight is in hundredths.             *)
(* skill_categories is the defaultdict(list): category -> list of keys.    *)
(***************************************************************************)
\* the rows csv.DictReader yields for the catalog file of test_skill_extractor
CsvRows ==
    << [category |-> "Programming Languages", skill |-> <<"Python">>, weight |-> 90],
       [category |-> "Web Development", skill |-> <<"React">>, weight |-> 90],
       [category |-> "Cloud & DevOps", skill |-> <<"AWS">>, weight |-> 95] >>

\* self.skills_data[key] = value: a new key goes last, a known key keeps its place
DictSet(dict, entry) ==
    IF \E i \in DOMAIN dict : dict[i].key = entry.key
    THEN [i \in DOMAIN dict |-> IF dict[i].key = entry.key THEN entry ELSE dict[i]]
    ELSE Append(dict, entry)

\* self.skill_categories[category].append(key)
ListAppend(lists, category, key) ==
    [c \in DOMAIN lists \cup {category} |->
        IF c = category
        THEN Append(IF c \in DOMAIN lists THEN lists[c] ELSE <<>>, key)
        ELSE lists[c]]

\* the loop of load_skills_database over rows, from the two indexes data and cats
RECURSIVE load_skills_database(_, _, _)
load_skills_database(rows, data, cats) ==
    IF rows = <<>> THEN [skills_data |-> data, skill_categories |-> cats]
    ELSE LET row == Head(rows)
             skill == row.skill
             category == row.category
             weight == row.weight
         IN load_skills_database(
                Tail(rows),
                DictSet(data, [key |-> lower(skill), category |-> category,
                               weight |-> weight, original |-> skill]),
                ListAppend(cats, category, lower(skill)))

\* the catalog after SkillExtractor(skills_file)
Catalog == load_skills_database(CsvRows, <<>>, <<>>)

\* \b at the gap before position p of str
WordBoundary(str, p) ==
    LET before == p > 1 /\ IsWordChar(str[p - 1])
        after == p <= Len(str) /\ IsWordChar(str[p])
    IN before # after

\* re.search(r'\b' + re.escape(skill) + r'\b', str)
SearchWord(str, skill) ==
    \E i \in 0..(Len(str) - Len(skill)) :
        /\ \A k \in 1..Len(skill) : str[i + k] = skill[k]
        /\ WordBoundary(str, i + 1)
        /\ WordBoundary(str, i + Len(skill) + 1)

\* the list found_skills at the end of the loop of extract_skills
FoundSkills(data, text) ==
    LET text_lower == lower(text)
        hit == SelectSeq(data, LAMBDA e : SearchWord(text_lower, e.key))
    IN [i \in DOMAIN hit |-> [skill |-> hit[i].original,
                              category |-> hit[i].category,
                              weight |-> hit[i].weight,
                              matched |-> TRUE]]

\* the body ends after the loop, with no return statement: the call yields None
extract_skills(data, text) ==
    LET found_skills == FoundSkills(data, text)
    IN NoneValue

\* {skill['skill'].lower() for skill in found_skills}
FoundSkillNames(found_skills) == {lower(found_skills[i].skill) : i \in DOMAIN found_skills}

\* the share taken of the found names instead of the required names
SkillCoverageOfFound(found_skill_names, required_skill_names, order) ==
    [kind |-> "tuple",
     coverage |-> IF found_skill_names # {}
                  THEN ((100 * SCALE) \div Cardinality(found_skill_names))
                       * Cardinality(found_skill_names \cap required_skill_names)
                  ELSE 0,
     matched |-> ListOfSet(found_skill_names \cap required_skill_names, order),
     missing |-> ListOfSet(required_skill_names \ found_skill_names, order)]

\* the tuple (coverage, list(matched), list(missing)) for the two sets of names
SkillCoverage(found_skill_names, required_skill_names, order) ==
    [kind |-> "tuple",
     coverage |-> IF required_skill_names # {}
                  THEN ((100 * SCALE) \div Cardinality(required_skill_names))
                       * Cardinality(found_skill_names \cap required_skill_names)
                  ELSE 0,
     matched |-> ListOfSet(found_skill_names \cap required_skill_names, order),
     missing |-> ListOfSet(required_skill_names \ found_skill_names, order)]

calculate_skill_coverage(found_skills, required_skills, order) ==
    SkillCoverage(FoundSkillNames(found_skills), LowerSet(required_skills), order)

\* [s['skill'] for s in sorted_skills] without the cut [:10]
TopSkillsUncut(skills) ==
    LET sorted_skills == SortDescending([i \in DOMAIN skills |-> i],
                                        [i \in DOMAIN skills |-> skills[i].weight])
    IN [k \in DOMAIN sorted_skills |-> skills[sorted_skills[k]].skill]

\* [s['skill'] for s in sorted_skills[:10]], sorted_skills being
\* sorted(skills, key=lambda x: x['weight'], reverse=True)
TopSkills(skills) ==
    LET sorted_skills == SortDescending([i \in DOMAIN skills |-> i],
                                        [i \in DOMAIN skills |-> skills[i].weight])
    IN [k \in DOMAIN Take(sorted_skills, 10) |-> skills[sorted_skills[k]].skill]

\* dict(category_counts): the number of skills of each category
CategoryCounts(skills) ==
    [c \in {skills[i].category : i \in DOMAIN skills} |->
        Cardinality({i \in DOMAIN skills : skills[i].category = c})]

\* average_weight is kept as the fraction sum(weights) / len(weights), the
\* weights in hundredths
get_skill_statistics(skills) ==
    IF skills = <<>>
    THEN [total_skills |-> 0, unique_categories |-> 0, category_distribution |-> <<>>,
          average_weight |-> [sum |-> 0, len |-> 1], top_skills |-> <<>>]
    ELSE [total_skills |-> Len(skills),
          unique_categories |-> Cardinality({skills[i].category : i \in DOMAIN skills}),
          category_distribution |-> CategoryCounts(skills),
          average_weight |-> [sum |-> SumOver([i \in DOMAIN skills |-> skills[i].weight],
                                              DOMAIN skills),
                              len |-> Len(skills)],
          top_skills |-> TopSkills(skills)]

(***************************************************************************)
(* scoring/ats_score.py: ATSScoreCalculator                                *)
(*                                                                         *)
(* A call ends in [exc |-> "none", value |-> v] or in [exc |-> e, ...].    *)
(* Recommendations are named by the rule that writes them.                 *)
(***************************************************************************)
Return(v) == [exc |-> "none", value |-> v]
Raise(e) == [exc |-> e, value |-> NoneValue]

\* a (score, recommendations) or (score, matches, recommendations) tuple
Tuple(score, matches, recommendations) ==
    [kind |-> "tuple", score |-> score, matches |-> matches,
     recommendations |-> recommendations]

\* n consecutive digits from position p: \d{n}
DigitsAt(str, p, n) == \A k \in 0..(n - 1) : DigitAt(str, p + k)

WordCharAt(str, p) == p <= Len(str) /\ IsWordChar(str[p])

\* the position after the run of \w that starts at p
RECURSIVE AfterWord(_, _)
AfterWord(str, p) == IF WordCharAt(str, p) THEN AfterWord(str, p + 1) ELSE p

\* [A-Za-z0-9._%+-]
IsEmailLocal(a) == IsWordChar(a) \/ a \in {".", "%", "+", "-"}
\* [A-Za-z0-9.-]
IsEmailDomain(a) == IsWordChar(a) \/ a \in {".", "-"}
\* [A-Z|a-z]
IsEmailTld(a) == a \in LowerWords \cup UpperWords \cup {"|"}

\* re.search(r'\b[A-Za-z0-9._%+-]+@[A-Za-z0-9.-]+\.[A-Z|a-z]{2,}\b', text):
\* local part p..a-1, "@" at a, domain a+1..d-1, "." at d, top level d+1..e
has_email(text) ==
    \E a \in 1..Len(text) :
        /\ text[a] = "@"
        /\ \E p \in 1..(a - 1) :
              WordBoundary(text, p) /\ \A k \in p..(a - 1) : IsEmailLocal(text[k])
        /\ \E d \in (a + 2)..Len(text) :
              /\ text[d] = "."
              /\ \A k \in (a + 1)..(d - 1) : IsEmailDomain(text[k])
              /\ \E e \in (d + 1)..Len(text) :
                    /\ \A k \in (d + 1)..e : IsEmailTld(text[k])
                    /\ StrLen(SubSeq(text, d + 1, e)) >= 2
                    /\ WordBoundary(text, e + 1)

\* [-.\s]
IsPhoneSep(a) == a \in {"-", "."} \/ IsSpace(a)

\* re.search(r'\d{3}[-.\s]?\d{3}[-.\s]?\d{4}', text)
has_phone(text) ==
    \E p \in 1..Len(text), s1 \in {0, 1}, s2 \in {0, 1} :
        /\ DigitsAt(text, p, 3)
        /\ s1 = 1 => (p + 3 <= Len(text) /\ IsPhoneSep(text[p + 3]))
        /\ DigitsAt(text, p + 3 + s1, 3)
        /\ s2 = 1 => (p + 6 + s1 <= Len(text) /\ IsPhoneSep(text[p + 6 + s1]))
        /\ DigitsAt(text, p + 6 + s1 + s2, 4)

\* sum(1 for x in needles if x in text)
CountContained(text, needles) == Cardinality({i \in DOMAIN needles : Contains(text, needles[i])})

problematic_chars == <<<<"bullet">>>>
common_headers == <<<<"experience">>, <<"education">>, <<"skills">>, <<"summary">>>>

_score_formatting(text) ==
    LET word_count == Len(split(text))
        email == has_email(text)
        phone == has_phone(text)
        short == word_count < 300
        long == ~short /\ word_count > 3000
        special == \E i \in DOMAIN problematic_chars : Contains(text, problematic_chars[i])
        tables == Contains(text, <<"\t">>) \/ Contains(text, <<"|">>)
        headers_found == CountContained(lower(text), common_headers)
        score == 100 - (IF short THEN 20 ELSE 0) - (IF long THEN 15 ELSE 0)
                     - (IF special THEN 10 ELSE 0) - (IF tables THEN 10 ELSE 0)
                     - (IF ~email THEN 15 ELSE 0)
                     - (IF ~phone THEN 10 ELSE 0)
                     - (IF headers_found < 3 THEN 15 ELSE 0)
        r1 == AppendIf(short, <<>>, "too_short")
        r2 == AppendIf(long, r1, "too_long")
        r3 == AppendIf(special, r2, "special_bullets")
        r4 == AppendIf(tables, r3, "avoid_tables")
        r5 == AppendIf(~email, r4, "add_email")
        r6 == AppendIf(~phone, r5, "add_phone")
        r7 == AppendIf(headers_found < 3, r6, "section_headers")
    IN Tuple((IF score > 0 THEN score ELSE 0) * SCALE, 0, r7)

\* the keywords found in text_lower, in the order of the list
_score_keywords(text, keywords) ==
    LET text_lower == lower(text)
        hits == {i \in DOMAIN keywords : Contains(text_lower, lower(keywords[i]))}
        matches == Cardinality(hits)
        missing_keywords == SelectSeq(keywords, LAMBDA k : ~Contains(text_lower, lower(k)))
        match_percentage == IF keywords # <<>>
                            THEN ((100 * SCALE) \div Len(keywords)) * matches
                            ELSE 0
        total_words == Len(split(text))
        \* keyword_density > 5, with keyword_density = matches / total_words * 100
        dense == total_words > 0 /\ matches * 100 > 5 * total_words
        r1 == AppendIf(match_percentage < 70 * SCALE, <<>>, "include_keywords")
        r2 == AppendIf(dense, r1, "keyword_density")
    IN Tuple(match_percentage - (IF dense THEN 10 * SCALE ELSE 0), matches, r2)

\* [-–]: of the two dashes the lexemes spell the hyphen
IsDash(a) == a = "-"
DashAt(str, p) == p <= Len(str) /\ IsDash(str[p])

\* r'\d{4}\s*[-–]\s*\d{4}' tried at position p
DateRangeAt(str, p) ==
    LET d == AfterSpaces(str, p + 4)
    IN DigitsAt(str, p, 4) /\ DashAt(str, d) /\ DigitsAt(str, AfterSpaces(str, d + 1), 4)

\* r'\d{4}\s*[-–]\s*present' tried at position p
DatePresentAt(str, p) ==
    LET d == AfterSpaces(str, p + 4)
    IN DigitsAt(str, p, 4) /\ DashAt(str, d) /\ At(str, AfterSpaces(str, d + 1), "present")

\* r'\w+\s+\d{4}\s*[-–]\s*\w+\s+\d{4}' with the last \w of the first \w+ at position p
MonthRangeAt(str, p) ==
    LET y1 == AfterSpaces(str, p + 1)
        d == AfterSpaces(str, y1 + 4)
        m2 == AfterSpaces(str, d + 1)
        w == AfterWord(str, m2)
    IN /\ WordCharAt(str, p) /\ SpaceAt(str, p + 1)
       /\ DigitsAt(str, y1, 4) /\ DashAt(str, d)
       /\ WordCharAt(str, m2) /\ SpaceAt(str, w)
       /\ DigitsAt(str, AfterSpaces(str, w), 4)

\* any(re.search(pattern, text, re.IGNORECASE) for pattern in date_patterns)
has_dates(text) ==
    LET str == lower(text)
    IN \E p \in 1..Len(str) :
          DateRangeAt(str, p) \/ DatePresentAt(str, p) \/ MonthRangeAt(str, p)

\* re.search(r'\d+%|\$\d+|\d+\+', text)
has_numbers(text) ==
    \E p \in 1..Len(text) :
        \/ DigitAt(text, p) /\ At(text, p + 1, "%")
        \/ At(text, p, "$") /\ DigitAt(text, p + 1)
        \/ DigitAt(text, p) /\ At(text, p + 1, "+")

experience_keywords == <<<<"experience">>, <<"employment">>, <<"work", " ", "history">>>>
action_verbs ==
    <<<<"developed">>, <<"created">>, <<"managed">>, <<"led">>, <<"implemented">>,
      <<"designed">>, <<"built">>, <<"improved">>, <<"achieved">>, <<"established">>>>

\* _score_experience without the return inside `if not has_experience:`
_score_experience_without_return(text, sections) ==
    LET text_lower == lower(text)
        has_experience == CountContained(text_lower, experience_keywords) > 0
        action_verb_count == CountContained(text_lower, action_verbs)
        score == 100 - (IF ~has_experience THEN 50 ELSE 0)
                     - (IF ~has_dates(text) THEN 20 ELSE 0)
                     - (IF action_verb_count < 5 THEN 15 ELSE 0)
                     - (IF ~has_numbers(text) THEN 15 ELSE 0)
        r0 == AppendIf(~has_experience, <<>>, "add_experience_section")
        r1 == AppendIf(~has_dates(text), r0, "include_dates")
        r2 == AppendIf(action_verb_count < 5, r1, "action_verbs")
        r3 == AppendIf(~has_numbers(text), r2, "quantify")
    IN Tuple((IF score > 0 THEN score ELSE 0) * SCALE, 0, r3)

_score_experience(text, sections) ==
    LET text_lower == lower(text)
        has_experience == CountContained(text_lower, experience_keywords) > 0
        action_verb_count == CountContained(text_lower, action_verbs)
        score == 100 - (IF ~has_dates(text) THEN 20 ELSE 0)
                     - (IF action_verb_count < 5 THEN 15 ELSE 0)
                     - (IF ~has_numbers(text) THEN 15 ELSE 0)
        r1 == AppendIf(~has_dates(text), <<>>, "include_dates")
        r2 == AppendIf(action_verb_count < 5, r1, "action_verbs")
        r3 == AppendIf(~has_numbers(text), r2, "quantify")
    IN IF ~has_experience
       THEN Tuple(50 * SCALE, 0, <<"add_experience_section">>)
       ELSE Tuple((IF score > 0 THEN score ELSE 0) * SCALE, 0, r3)

degree_keywords ==
    <<<<"bachelor">>, <<"master">>, <<"phd">>, <<"doctorate">>,
      <<"b", ".", "s", ".">>, <<"m", ".", "s", ".">>, <<"b", ".", "a", ".">>,
      <<"m", ".", "a", ".">>, <<"mba">>, <<"degree">>>>

\* re.search(r'\b(19|20)\d{2}\b', text)
has_year(text) ==
    \E p \in 1..Len(text) :
        /\ WordBoundary(text, p)
        /\ (At(text, p, "1") /\ At(text, p + 1, "9")) \/ (At(text, p, "2") /\ At(text, p + 1, "0"))
        /\ DigitsAt(text, p + 2, 2)
        /\ WordBoundary(text, p + 4)

\* re.search(r'gpa|grade point average', text_lower)
has_gpa(text_lower) ==
    Contains(text_lower, <<"gpa">>)
    \/ Contains(text_lower, <<"grade", " ", "point", " ", "average">>)

\* the scorer with a deduction of 10 for a missing GPA
_score_education_deducting_gpa(text, sections) ==
    LET text_lower == lower(text)
        has_education == Contains(text_lower, <<"education">>)
        has_degree == CountContained(text_lower, degree_keywords) > 0
        score == 100 - (IF ~has_degree THEN 30 ELSE 0) - (IF ~has_year(text) THEN 20 ELSE 0)
                     - (IF ~has_gpa(text_lower) THEN 10 ELSE 0)
        r1 == AppendIf(~has_degree, <<>>, "specify_degree")
        r2 == AppendIf(~has_year(text), r1, "graduation_year")
        r3 == AppendIf(~has_gpa(text_lower), r2, "consider_gpa")
    IN IF ~has_education
       THEN Tuple(60 * SCALE, 0, <<"add_education_section">>)
       ELSE Tuple((IF score > 0 THEN score ELSE 0) * SCALE, 0, r3)

_score_education(text, sections) ==
    LET text_lower == lower(text)
        has_education == Contains(text_lower, <<"education">>)
        has_degree == CountContained(text_lower, degree_keywords) > 0
        score == 100 - (IF ~has_degree THEN 30 ELSE 0) - (IF ~has_year(text) THEN 20 ELSE 0)
        r1 == AppendIf(~has_degree, <<>>, "specify_degree")
        r2 == AppendIf(~has_year(text), r1, "graduation_year")
        r3 == AppendIf(~has_gpa(text_lower), r2, "consider_gpa")
    IN IF ~has_education
       THEN Tuple(60 * SCALE, 0, <<"add_education_section">>)
       ELSE Tuple((IF score > 0 THEN score ELSE 0) * SCALE, 0, r3)

\* the body stops after skill_count = len(extracted_skills): the call yields None
_score_skills(extracted_skills) ==
    LET score == 100
        recommendations == <<>>
        skill_count == Len(extracted_skills)
    IN NoneValue

\* WEIGHTS, in hundredths, in the order of the dict
WEIGHTS ==
    << [component |-> "formatting", weight |-> 15],
       [component |-> "keywords", weight |-> 30],
       [component |-> "experience", weight |-> 20],
       [component |-> "education", weight |-> 15],
       [component |-> "skills", weight |-> 20] >>

\* scores[component] of the dict scores, a sequence of [component, score] in insertion order
HasKey(scores, component) == \E i \in DOMAIN scores : scores[i].component = component
Lookup(scores, component) ==
    scores[CHOOSE i \in DOMAIN scores : scores[i].component = component].score

\* sum(scores[component] * self.WEIGHTS[component] for component in self.WEIGHTS.keys())
RECURSIVE WeightedSum(_, _)
WeightedSum(scores, ws) ==
    IF ws = <<>> THEN 0
    ELSE (Lookup(scores, Head(ws).component) \div 100) * Head(ws).weight
         + WeightedSum(scores, Tail(ws))

\* the branch taken by `if required_keywords:`: None and [] are both false
HasKeywords(required_keywords) == ~IsNone(required_keywords) /\ Get(required_keywords) # <<>>

\* the strengths and weaknesses, each named by its component
Strengths(scores) ==
    LET hit == SelectSeq(scores, LAMBDA e : e.score >= 80 * SCALE)
    IN [i \in DOMAIN hit |-> <<hit[i].component, "Excellent">>]
Weaknesses(scores) ==
    LET hit == SelectSeq(scores, LAMBDA e : ~(e.score >= 80 * SCALE) /\ e.score < 60 * SCALE)
    IN [i \in DOMAIN hit |-> <<hit[i].component, "Needs improvement">>]

calculate_score(resume_text, extracted_skills, required_keywords, sections) ==
    LET format == _score_formatting(resume_text)
        keyword == IF HasKeywords(required_keywords)
                   THEN _score_keywords(resume_text, Get(required_keywords))
                   ELSE Tuple(0, 0, <<>>)
        exp == _score_experience(resume_text, sections)
        edu == _score_education(resume_text, sections)
        skills == _score_skills(extracted_skills)
        \* scores and recommendations when line 101 is reached
        scores4 == <<[component |-> "formatting", score |-> format.score]>>
                   \o (IF HasKeywords(required_keywords)
                       THEN <<[component |-> "keywords", score |-> keyword.score]>>
                       ELSE <<>>)
                   \o <<[component |-> "experience", score |-> exp.score],
                        [component |-> "education", score |-> edu.score]>>
        recs4 == format.recommendations \o keyword.recommendations
                 \o exp.recommendations \o edu.recommendations
    IN IF skills.kind # "tuple"
       THEN \* skills_score, skills_recs = None
            Raise("TypeError")
       ELSE LET scores == Append(scores4, [component |-> "skills", score |-> skills.score])
            IN IF \E i \in DOMAIN WEIGHTS : ~HasKey(scores, WEIGHTS[i].component)
               THEN \* scores[component] of a component that was never stored
                    Raise("KeyError")
               ELSE Return([kind |-> "ATSScoreResult",
                            overall_score |-> WeightedSum(scores, WEIGHTS),
                            section_scores |-> scores,
                            recommendations |-> recs4 \o skills.recommendations,
                            strengths |-> Strengths(scores),
                            weaknesses |-> Weaknesses(scores),
                            keyword_matches |-> keyword.matches,
                            keyword_total |-> IF HasKeywords(required_keywords)
                                              THEN Len(Get(required_keywords))
                                              ELSE 0])

\* the names an ATSScoreCalculator instance has: the class attributes, the
\* methods the class defines and the field __init__ sets
ATSScoreCalculatorAttributes ==
    {"WEIGHTS", "REQUIRED_SECTIONS", "RECOMMENDED_SECTIONS", "score_breakdown",
     "__init__", "calculate_score", "_score_formatting", "_score_keywords",
     "_score_experience", "_score_education", "_score_skills"}

\* calculator.<name>(...): the attribute lookup that precedes the call
CallAttribute(name) ==
    IF name \in ATSScoreCalculatorAttributes
    THEN Return([kind |-> "bound method", name |-> name])
    ELSE Raise("AttributeError")

(***************************************************************************)
(* npl/resume_parser.py: ResumeParser                                      *)
(*                                                                         *)
(* An uploaded file is [filename, file_bytes]: the filename is its suffix  *)
(* as Path(filename).suffix yields it, and the bytes are written as the    *)
(* text they hold.                                                         *)
(***************************************************************************)
SUPPORTED_FORMATS == {".pdf", ".docx", ".txt"}

\* the fields after ResumeParser()
ResumeParserInit == [file_path |-> <<>>, file_type |-> <<>>, raw_text |-> <<>>]

\* str.lower() of a suffix
LowerSuffix(suffix) ==
    CASE suffix = ".PDF" -> ".pdf"
      [] suffix = ".TXT" -> ".txt"
      [] OTHER -> suffix

\* parse_bytes without the branch of '.txt': self.raw_text keeps its value
parse_bytes_without_txt(self, file_bytes, filename) ==
    LET file_type == LowerSuffix(filename)
        stored == [self EXCEPT !.file_type = Some(file_type),
                               !.raw_text = IF file_type \in {".pdf", ".docx"}
                                            THEN Some(file_bytes)
                                            ELSE self.raw_text]
    IN IF file_type \notin SUPPORTED_FORMATS
       THEN [self |-> self, exc |-> "ValueError", value |-> <<>>]
       ELSE [self |-> stored, exc |-> "none", value |-> stored.raw_text]

\* the parser's fields after parse_bytes, and what the call returns or raises:
\* self.file_type and self.raw_text are stored, and self.raw_text is returned
parse_bytes(self, file_bytes, filename) ==
    LET file_type == LowerSuffix(filename)
        stored == [self EXCEPT !.file_type = Some(file_type),
                               !.raw_text = IF file_type \in {".pdf", ".docx", ".txt"}
                                            THEN Some(file_bytes)
                                            ELSE self.raw_text]
    IN IF file_type \notin SUPPORTED_FORMATS
       THEN [self |-> self, exc |-> "ValueError", value |-> <<>>]
       ELSE [self |-> stored, exc |-> "none", value |-> stored.raw_text]

(***************************************************************************)
(* api/routes.py: the handlers analyze_resume, batch_analyze and           *)
(* compare_candidates                                                      *)
(*                                                                         *)
(* The handlers are coroutines on one event loop: a handler runs alone     *)
(* from one `await file.read()` to the next or to its end.  Each operator  *)
(* below is one such stretch: it takes the shared parser's fields and      *)
(* yields them after the stretch, with what the stretch produced.  The     *)
(* calls of language_handler take the local resume_text and their results  *)
(* reach no statement before the handler's response is decided; they are   *)
(* left out.                                                               *)
(***************************************************************************)
\* raise HTTPException(status_code=500, detail=str(e)); detail names the
\* exception e that was caught
HTTPError(detail) == [kind |-> "HTTPException", status_code |-> 500, detail |-> detail]

\* `not resume_text`: None and '' are both false
NoText(resume_text) == IsNone(resume_text) \/ Get(resume_text) = <<>>

\* round(x, 2), in hundredths
Round2(x) ==
    LET unit == SCALE \div 100
        q == x \div unit
        rest == x % unit
    IN IF 2 * rest > unit \/ (2 * rest = unit /\ q % 2 = 1) THEN q + 1 ELSE q

\* the "ats_score" part of a response, or the exception of get_grade
AtsResponse(ats_result, grade) ==
    IF grade.exc # "none"
    THEN HTTPError(grade.exc)
    ELSE [kind |-> "JSONResponse", status_code |-> 200,
          overall_score |-> Round2(ats_result.overall_score),
          grade |-> grade.value]

\* analyze_resume from skill_extractor.extract_skills(resume_text) on:
\* categorize_skills iterates over extracted_skills
AnalyzeText(data, resume_text, extracted_skills, ats) ==
    IF extracted_skills.kind = "None"
    THEN HTTPError("TypeError")
    ELSE IF ats.exc # "none"
         THEN HTTPError(ats.exc)
         ELSE AtsResponse(ats.value, CallAttribute("get_grade"))

\* the response of analyze_resume for what parse_bytes produced; the
\* HTTPException(400) of an empty text is raised inside the try and leaves
\* the handler as the HTTPException(500) of `except Exception`
AnalyzeParsed(data, parsed) ==
    IF parsed.exc # "none" THEN HTTPError(parsed.exc)
    ELSE IF NoText(parsed.value) THEN HTTPError("HTTPException(400, Could not extract text from resume)")
    ELSE AnalyzeText(data, Get(parsed.value), extract_skills(data, Get(parsed.value)),
                     calculate_score(Get(parsed.value),
                                     extract_skills(data, Get(parsed.value)), <<>>, <<>>))

\* analyze_resume after `content = await file.read()`
analyze_resume(self_parser, data, filename, content) ==
    [parser |-> parse_bytes(self_parser, content, filename).self,
     response |-> AnalyzeParsed(data, parse_bytes(self_parser, content, filename))]

\* an entry of results of batch_analyze
Failed(filename, error) == [filename |-> filename, success |-> FALSE, error |-> error]

\* the entry batch_analyze appends for a text that was extracted
BatchScored(filename, extracted_skills, ats, grade) ==
    IF ats.exc # "none" THEN Failed(filename, ats.exc)
    ELSE IF grade.exc # "none" THEN Failed(filename, grade.exc)
    ELSE [filename |-> filename, success |-> TRUE,
          ats_score |-> Round2(ats.value.overall_score),
          grade |-> grade.value,
          skills_count |-> Len(extracted_skills.items)]

\* the entry batch_analyze appends for one file, for what parse_bytes produced
BatchParsed(data, filename, parsed) ==
    IF parsed.exc # "none" THEN Failed(filename, parsed.exc)
    ELSE IF NoText(parsed.value) THEN Failed(filename, "Could not extract text")
    ELSE BatchScored(filename, extract_skills(data, Get(parsed.value)),
                     calculate_score(Get(parsed.value),
                                     extract_skills(data, Get(parsed.value)), <<>>, <<>>),
                     CallAttribute("get_grade"))

\* one turn of the loop of batch_analyze after `content = await file.read()`
batch_analyze(self_parser, data, filename, content) ==
    [parser |-> parse_bytes(self_parser, content, filename).self,
     result |-> BatchParsed(data, filename, parse_bytes(self_parser, content, filename))]

\* the dict of batch_analyze with `failed` counting only the files without text
BatchResponseCountingEmptyTexts(files, results) ==
    [kind |-> "dict", status_code |-> 200, success |-> TRUE,
     total_files |-> Len(files),
     processed |-> Len(SelectSeq(results, LAMBDA r : r.success)),
     failed |-> Len(SelectSeq(results,
                              LAMBDA r : ~r.success /\ r.error = "Could not extract text")),
     results |-> results]

\* the dict batch_analyze returns
BatchResponse(files, results) ==
    [kind |-> "dict", status_code |-> 200, success |-> TRUE,
     total_files |-> Len(files),
     processed |-> Len(SelectSeq(results, LAMBDA r : r.success)),
     failed |-> Len(SelectSeq(results, LAMBDA r : ~r.success)),
     results |-> results]

\* [skill['skill'] for skill in extracted_skills]
SkillNamesOf(extracted_skills) ==
    [i \in DOMAIN extracted_skills.items |-> extracted_skills.items[i].skill]

\* one turn of the loop of compare_candidates for what parse_bytes produced:
\* the exception that ends the handler, or the candidates after the turn
CompareParsed(data, filename, parsed, candidates) ==
    IF parsed.exc # "none" THEN [exc |-> parsed.exc, candidates |-> candidates]
    ELSE IF NoText(parsed.value) THEN [exc |-> "none", candidates |-> candidates]
    ELSE IF extract_skills(data, Get(parsed.value)).kind = "None"
         THEN [exc |-> "TypeError", candidates |-> candidates]
         ELSE [exc |-> "none",
               candidates |-> Append(candidates,
                   [filename |-> filename, resume_text |-> Get(parsed.value),
                    skills |-> SkillNamesOf(extract_skills(data, Get(parsed.value)))])]

\* one turn of the loop of compare_candidates after `content = await file.read()`
compare_candidates(self_parser, data, filename, content, candidates) ==
    [parser |-> parse_bytes(self_parser, content, filename).self,
     turn |-> CompareParsed(data, filename, parse_bytes(self_parser, content, filename),
                            candidates)]

\* the response of compare_candidates for the ranked candidates
CompareResponse(ranked) ==
    [kind |-> "JSONResponse", status_code |-> 200, success |-> TRUE,
     total_candidates |-> Len(ranked.list),
     candidates |-> [k \in DOMAIN ranked.list |->
                       [filename |-> ranked.objects[ranked.list[k]].filename,
                        match_score |-> Round2(ranked.objects[ranked.list[k]].match_score),
                        match_level |-> ranked.objects[ranked.list[k]].match_level,
                        skills |-> Take(ranked.objects[ranked.list[k]].skills, 10)]]]

(***************************************************************************)
(* Inputs                                                                  *)
(***************************************************************************)
\* ' '.join(parts)
RECURSIVE Join(_)
Join(parts) ==
    IF parts = <<>> THEN <<>>
    ELSE IF Len(parts) = 1 THEN parts[1]
    ELSE parts[1] \o <<" ">> \o Join(Tail(parts))

SeqsUpTo(S, n) == UNION {[1..k -> S] : k \in 0..n}

Phrases ==
    { <<"5", "+", " ", "year", "s", " ", "of", " ", "experience">>,
      <<"experience", " ", "of", " ", "1", "2", " ", "year", "s">>,
      <<"1", " ", "year", " ", "Experience">>,
      <<"Experience", " ", "1", " ", "year">>,
      <<"2", "year", "s", " ", "experience">>,
      <<"0", " ", "year", "s">>,
      <<"Python">>,
      <<"AWS", " ", "team">>,
      <<"python", "s", " ", "React">> }

\* resume texts: up to MaxPhrases phrases, one space between two
Texts == {Join(ps) : ps \in SeqsUpTo(Phrases, MaxPhrases)}

\* the resume texts of a job match: up to MaxPhrases of three of the phrases
ResumePhrases ==
    { <<"5", "+", " ", "year", "s", " ", "of", " ", "experience">>,
      <<"Python">>,
      <<"AWS", " ", "team">> }
ResumeTexts == {Join(ps) : ps \in SeqsUpTo(ResumePhrases, MaxPhrases)}

JobDescriptions ==
    { <<>>,
      <<"Python", " ", "AWS", " ", "team">>,
      <<"5", "+", " ", "year", "s", " ", "of", " ", "experience", " ", "with", " ", "Python">> }

SkillNames == {<<"Python">>, <<"python">>, <<"AWS">>}
SkillLists == SeqsUpTo(SkillNames, MaxSkills)
JobSkillLists == {<<>>, <<<<"python">>, <<"aws">>>>, <<<<"Python">>, <<"React">>, <<"AWS">>>>}

\* the iteration orders a set of lowercase skill names can have
SkillUniverse == {<<"python">>, <<"aws">>, <<"react">>}
HashOrders == {o \in [1..Cardinality(SkillUniverse) -> SkillUniverse] :
                  \A i, j \in DOMAIN o : i # j => o[i] # o[j]}

OptionalYears == {<<>>, <<0>>, <<1>>, <<5>>, <<10>>}
JobYears == {<<>>, <<0>>, <<5>>}

\* the dicts a caller hands to rank_candidates
CandidateTexts ==
    { <<"React">>,
      <<"AWS", " ", "team">>,
      <<"5", "+", " ", "year", "s", " ", "of", " ", "experience", " ", "with", " ", "Python">> }
CandidateSkills == {<<>>, <<<<"Python">>>>}
CandidateLists ==
    UNION {[1..n -> [resume_text : CandidateTexts, skills : CandidateSkills]] :
              n \in 0..MaxCandidates}
WithFilenames(cs) ==
    [i \in DOMAIN cs |-> [filename |-> i, resume_text |-> cs[i].resume_text,
                          skills |-> cs[i].skills]]

AtsPhrases ==
    { <<"Experience", " ", "2", "0", "2", "0", "-", "2", "0", "2", "5", " ", "developed", " ",
        "created", " ", "managed", " ", "led", " ", "implemented", " ", "5", "+">>,
      <<"education", " ", "degree", " ", "2", "0", "2", "0", " ", "gpa">>,
      <<"skills", " ", "summary", " ", "team", "@", "aws", ".", "com", " ",
        "5", "5", "5", "-", "5", "5", "5", "-", "0", "1", "0", "0">>,
      <<"bullet", " ", "|", " ", "Python">>,
      <<"team">> }
AtsTexts == {Join(ps) : ps \in SeqsUpTo(AtsPhrases, MaxPhrases)}
Keywords == {<<"Python">>, <<"team">>}
OptionalKeywords == {<<>>} \cup {Some(ks) : ks \in SeqsUpTo(Keywords, MaxKeywords)}
ExtractedSkills ==
    {FoundSkills(Catalog.skills_data, t) :
        t \in {<<>>, <<"Python">>, <<"Python", " ", "AWS", " ", "team">>}}

\* the skill lists of a direct call of calculate_skill_match
ResumeSkillNames == {<<"Python">>, <<"python">>, <<"React">>, <<"AWS">>}
ResumeSkillLists == SeqsUpTo(ResumeSkillNames, MaxSkills)
JobSkillNames == {<<"python">>, <<"aws">>, <<"React">>}
RequiredSkillLists == SeqsUpTo(JobSkillNames, MaxSkills)

\* the records of found skills a caller can hand to calculate_skill_coverage:
\* up to MaxSkills entries of the catalog
CatalogRecords ==
    {[skill |-> CsvRows[i].skill, category |-> CsvRows[i].category,
      weight |-> CsvRows[i].weight, matched |-> TRUE] : i \in DOMAIN CsvRows}
FoundSkillLists == SeqsUpTo(CatalogRecords, MaxSkills)

\* the texts of a direct call of calculate_text_similarity: the resume texts
\* and a text of stop words only
SimilarityTexts == ResumeTexts \cup {<<"of", " ", "with">>}

\* a keyword list longer than MaxKeywords, one keyword of which ("team") is in
\* the resume texts; 100 * SCALE is a multiple of its length
ManyKeywords ==
    <<<<"team">>, <<"React">>, <<"year">>, <<"with">>, <<"React">>, <<"year">>,
      <<"with">>, <<"React">>, <<"year">>, <<"with">>, <<"React">>, <<"year">>>>
KeywordLists == SeqsUpTo(Keywords, MaxKeywords) \cup {ManyKeywords}

\* the overall scores a caller hands to get_grade: the ends of the range and
\* both sides of each boundary of the bands
GradeScores == {0, 59, 60, 69, 70, 79, 80, 89, 90, 100}

\* a list of eleven found skills, one more than top_skills keeps
ManyFoundSkills ==
    [k \in 1..11 |-> CHOOSE c \in CatalogRecords : c.skill = CsvRows[((k - 1) % 3) + 1].skill]
StatisticsInputs == FoundSkillLists \cup {ManyFoundSkills}

\* texts for the section scorers: phrases that carry the section keyword
\* with none or one of the things the scorer looks for
SectionPhrases ==
    { <<"experience">>,
      <<"Experience", " ", "2", "0", "2", "0", "-", "2", "0", "2", "5">>,
      <<"experience", " ", "5", "+">>,
      <<"experience", " ", "developed", " ", "created", " ", "managed", " ", "led", " ",
        "implemented">>,
      <<"education">>,
      <<"education", " ", "degree">>,
      <<"education", " ", "2", "0", "2", "0">>,
      <<"team">> }
SectionTexts == AtsTexts \cup {Join(ps) : ps \in SeqsUpTo(SectionPhrases, MaxPhrases)}

\* the rows of one load of a catalog file
MaxRows == 2

\* the indexes after SkillExtractor() without a skills file
EmptyCatalog == [skills_data |-> <<>>, skill_categories |-> <<>>]

\* rows of a catalog file: a name, the same name in another case under
\* another category, another name
LoadRows ==
    { [category |-> "Programming Languages", skill |-> <<"Python">>, weight |-> 90],
      [category |-> "Data Science", skill |-> <<"python">>, weight |-> 80],
      [category |-> "Web Development", skill |-> <<"React">>, weight |-> 90] }
RowLists == SeqsUpTo(LoadRows, MaxRows)

(***************************************************************************)
(* The state machine: one call of one operation on one input.              *)
(***************************************************************************)
Init ==
    /\ pc = "call"
    /\ ret = NoneValue
    /\ exc = "none"
    /\ \E c \in {Catalog, EmptyCatalog} :
          /\ skills_data = c.skills_data
          /\ skill_categories = c.skill_categories
    /\ parser = ResumeParserInit
    /\ frames = <<>>
    /\ \/ /\ op = "calculate_experience_match"
          /\ args \in [resume_text : Texts, required_years : OptionalYears]
          /\ heap = <<>>
       \/ /\ op = "calculate_job_match_score"
          /\ args \in [resume_text : ResumeTexts, job_description : JobDescriptions,
                       resume_skills : SkillLists, job_skills : JobSkillLists,
                       required_years : JobYears]
          /\ heap = <<>>
       \/ /\ op = "rank_candidates"
          /\ \E cs \in CandidateLists, jd \in JobDescriptions, js \in JobSkillLists :
                /\ heap = WithFilenames(cs)
                /\ args = [candidates |-> [i \in DOMAIN cs |-> i],
                           job_description |-> jd, job_skills |-> js]
       \/ /\ op = "calculate_score"
          /\ args \in [resume_text : AtsTexts, extracted_skills : ExtractedSkills,
                       required_keywords : OptionalKeywords, sections : {<<>>}]
          /\ heap = <<>>
       \/ /\ op = "extract_skills"
          /\ args \in [text : Texts]
          /\ heap = <<>>
       \/ /\ op = "calculate_skill_match"
          /\ args \in [resume_skills : ResumeSkillLists, job_skills : RequiredSkillLists]
          /\ heap = <<>>
       \/ /\ op = "calculate_skill_coverage"
          /\ args \in [found_skills : FoundSkillLists, required_skills : RequiredSkillLists]
          /\ heap = <<>>
       \/ /\ op = "calculate_text_similarity"
          /\ args \in [text1 : SimilarityTexts, text2 : SimilarityTexts]
          /\ heap = <<>>
       \/ /\ op = "_score_formatting"
          /\ args \in [text : AtsTexts, sections : {<<>>}]
          /\ heap = <<>>
       \/ /\ op \in {"_score_experience", "_score_education"}
          /\ args \in [text : SectionTexts, sections : {<<>>}]
          /\ heap = <<>>
       \/ /\ op = "_score_keywords"
          /\ args \in [text : AtsTexts, keywords : KeywordLists]
          /\ heap = <<>>
       \/ /\ op = "_score_skills"
          /\ args \in [extracted_skills : ExtractedSkills]
          /\ heap = <<>>
       \/ /\ op = "get_grade"
          /\ \E s \in GradeScores : args = [overall_score |-> s * SCALE]
          /\ heap = <<>>
       \/ /\ op = "get_skill_statistics"
          /\ args \in [skills : StatisticsInputs]
          /\ heap = <<>>
       \/ /\ op = "load_skills_database"
          /\ args \in [rows : RowLists]
          /\ heap = <<>>
    /\ skills_data = EmptyCatalog.skills_data => op = "load_skills_database"

CalculateExperienceMatch ==
    /\ pc = "call" /\ op = "calculate_experience_match"
    /\ ret' = [kind |-> "dict"]
              @@ calculate_experience_match(args.resume_text, args.required_years)
    /\ pc' = "done"
    /\ UNCHANGED <<op, args, exc, heap, skills_data, skill_categories,
                 parser, frames>>

CalculateJobMatchScore ==
    /\ pc = "call" /\ op = "calculate_job_match_score"
    /\ \E order \in HashOrders :
          ret' = calculate_job_match_score(args.resume_text, args.job_description,
                                           args.resume_skills, args.job_skills,
                                           args.required_years, order)
    /\ pc' = "done"
    /\ UNCHANGED <<op, args, exc, heap, skills_data, skill_categories,
                 parser, frames>>

RankCandidates ==
    /\ pc = "call" /\ op = "rank_candidates"
    /\ \E order \in HashOrders :
          LET r == rank_candidates(heap, args.job_description, args.job_skills, order)
          IN /\ heap' = r.objects
             /\ ret' = [kind |-> "list", items |-> r.list]
    /\ pc' = "done"
    /\ UNCHANGED <<op, args, exc, skills_data, skill_categories,
                 parser, frames>>

CalculateScore ==
    /\ pc = "call" /\ op = "calculate_score"
    /\ LET r == calculate_score(args.resume_text, args.extracted_skills,
                                args.required_keywords, args.sections)
       IN /\ ret' = r.value
          /\ exc' = r.exc
    /\ pc' = "done"
    /\ UNCHANGED <<op, args, heap, skills_data, skill_categories,
                 parser, frames>>

ExtractSkills ==
    /\ pc = "call" /\ op = "extract_skills"
    /\ ret' = extract_skills(skills_data, args.text)
    /\ pc' = "done"
    /\ UNCHANGED <<op, args, exc, heap, skills_data, skill_categories,
                 parser, frames>>

CalculateSkillMatch ==
    /\ pc = "call" /\ op = "calculate_skill_match"
    /\ \E order \in HashOrders :
          ret' = [kind |-> "dict"]
                 @@ calculate_skill_match(args.resume_skills, args.job_skills, order)
    /\ pc' = "done"
    /\ UNCHANGED <<op, args, exc, heap, skills_data, skill_categories,
                 parser, frames>>

CalculateSkillCoverage ==
    /\ pc = "call" /\ op = "calculate_skill_coverage"
    /\ \E order \in HashOrders :
          ret' = calculate_skill_coverage(args.found_skills, args.required_skills, order)
    /\ pc' = "done"
    /\ UNCHANGED <<op, args, exc, heap, skills_data, skill_categories,
                 parser, frames>>

CalculateTextSimilarity ==
    /\ pc = "call" /\ op = "calculate_text_similarity"
    /\ ret' = [kind |-> "dict"] @@ calculate_text_similarity(args.text1, args.text2)
    /\ pc' = "done"
    /\ UNCHANGED <<op, args, exc, heap, skills_data, skill_categories,
                 parser, frames>>

ScoreFormatting ==
    /\ pc = "call" /\ op = "_score_formatting"
    /\ ret' = _score_formatting(args.text)
    /\ pc' = "done"
    /\ UNCHANGED <<op, args, exc, heap, skills_data, skill_categories,
                 parser, frames>>

ScoreKeywords ==
    /\ pc = "call" /\ op = "_score_keywords"
    /\ ret' = _score_keywords(args.text, args.keywords)
    /\ pc' = "done"
    /\ UNCHANGED <<op, args, exc, heap, skills_data, skill_categories,
                 parser, frames>>

ScoreExperience ==
    /\ pc = "call" /\ op = "_score_experience"
    /\ ret' = _score_experience(args.text, args.sections)
    /\ pc' = "done"
    /\ UNCHANGED <<op, args, exc, heap, skills_data, skill_categories,
                 parser, frames>>

ScoreEducation ==
    /\ pc = "call" /\ op = "_score_education"
    /\ ret' = _score_education(args.text, args.sections)
    /\ pc' = "done"
    /\ UNCHANGED <<op, args, exc, heap, skills_data, skill_categories,
                 parser, frames>>

ScoreSkills ==
    /\ pc = "call" /\ op = "_score_skills"
    /\ ret' = _score_skills(args.extracted_skills)
    /\ pc' = "done"
    /\ UNCHANGED <<op, args, exc, heap, skills_data, skill_categories,
                 parser, frames>>

GetGrade ==
    /\ pc = "call" /\ op = "get_grade"
    /\ LET r == CallAttribute("get_grade")
       IN /\ ret' = r.value
          /\ exc' = r.exc
    /\ pc' = "done"
    /\ UNCHANGED <<op, args, heap, skills_data, skill_categories,
                 parser, frames>>

GetSkillStatistics ==
    /\ pc = "call" /\ op = "get_skill_statistics"
    /\ ret' = [kind |-> "dict"] @@ get_skill_statistics(args.skills)
    /\ pc' = "done"
    /\ UNCHANGED <<op, args, exc, heap, skills_data, skill_categories,
                 parser, frames>>

\* load_skills_database on an extractor that was constructed without a file,
\* or once more on the extractor that has loaded its file
LoadSkillsDatabase ==
    /\ pc = "call" /\ op = "load_skills_database"
    /\ LET loaded == load_skills_database(args.rows, skills_data, skill_categories)
       IN /\ skills_data' = loaded.skills_data
          /\ skill_categories' = loaded.skill_categories
    /\ ret' = NoneValue
    /\ pc' = "done"
    /\ UNCHANGED <<op, args, exc, heap, parser, frames>>

Next ==
    \/ CalculateExperienceMatch
    \/ CalculateJobMatchScore
    \/ RankCandidates
    \/ CalculateScore
    \/ ExtractSkills
    \/ CalculateSkillMatch
    \/ CalculateSkillCoverage
    \/ CalculateTextSimilarity
    \/ ScoreFormatting
    \/ ScoreKeywords
    \/ ScoreExperience
    \/ ScoreEducation
    \/ ScoreSkills
    \/ GetGrade
    \/ GetSkillStatistics
    \/ LoadSkillsDatabase

Spec == Init /\ [][Next]_vars

(***************************************************************************)
(* The server: up to MaxRequests requests are served at once by coroutines *)
(* of one event loop that share the parser, the skill extractor and the    *)
(* calculators.  frames[r] is the coroutine of request r: its handler and  *)
(* files, the position pc ("read": suspended in `await file.read()` of     *)
(* file i; "run": resumed with content; "done"), the list it builds and    *)
(* its response.                                                           *)
(***************************************************************************)
MaxRequests == 2
\* the files uploaded over all the requests
MaxUploads == 3

\* an empty text file, a PDF that holds the text "Python", a file of a format
\* that is not supported
Uploads ==
    { [filename |-> ".txt", file_bytes |-> <<>>],
      [filename |-> ".PDF", file_bytes |-> <<"Python">>],
      [filename |-> ".exe", file_bytes |-> <<>>] }

\* the requests: analyze-resume takes one file, the other two one or more
Requests ==
    [handler : {"analyze_resume"}, files : [1..1 -> Uploads]]
    \cup [handler : {"batch_analyze", "compare_candidates"},
          files : UNION {[1..n -> Uploads] : n \in 1..MaxUploads}]

\* the form fields of compare_candidates
FormJobDescription == <<"Python", " ", "AWS", " ", "team">>
FormRequiredSkills == <<<<"python">>, <<"aws">>>>

\* the coroutine of a request that has reached its first `await file.read()`
Frame(request) ==
    [handler |-> request.handler, files |-> request.files, pc |-> "read", i |-> 1,
     content |-> <<>>, items |-> <<>>, response |-> NoneValue]

RECURSIVE TotalFiles(_)
TotalFiles(fs) == IF fs = <<>> THEN 0 ELSE Len(Head(fs).files) + TotalFiles(Tail(fs))

ServerInit ==
    /\ pc = "serve"
    /\ op = "server"
    /\ args = <<>>
    /\ ret = NoneValue
    /\ exc = "none"
    /\ heap = <<>>
    /\ skills_data = Catalog.skills_data
    /\ skill_categories = Catalog.skill_categories
    /\ parser = ResumeParserInit
    /\ \E n \in 1..MaxRequests :
          \E requests \in [1..n -> Requests] :
             /\ TotalFiles(requests) <= MaxUploads
             /\ frames = [r \in 1..n |-> Frame(requests[r])]

\* `content = await file.read()` completes and the coroutine is resumed
ReadFile ==
    \E r \in DOMAIN frames :
       /\ frames[r].pc = "read"
       /\ frames' = [frames EXCEPT ![r].pc = "run",
                                   ![r].content = frames[r].files[frames[r].i].file_bytes]
       /\ UNCHANGED <<pc, op, args, ret, exc, heap, skills_data, skill_categories, parser>>

\* the coroutine of r after this turn of its loop: suspended at the read of
\* the next file, or done with the response
NextTurn(f, items, response) ==
    IF f.i < Len(f.files)
    THEN [f EXCEPT !.pc = "read", !.i = f.i + 1, !.content = <<>>, !.items = items]
    ELSE [f EXCEPT !.pc = "done", !.content = <<>>, !.items = items, !.response = response]

\* the coroutine of r after an exception has left the handler
Ended(f, response) == [f EXCEPT !.pc = "done", !.content = <<>>, !.response = response]

AnalyzeResume ==
    \E r \in DOMAIN frames :
       /\ frames[r].pc = "run" /\ frames[r].handler = "analyze_resume"
       /\ LET step == analyze_resume(parser, skills_data, frames[r].files[1].filename,
                                     frames[r].content)
          IN /\ parser' = step.parser
             /\ frames' = [frames EXCEPT ![r] = Ended(frames[r], step.response)]
       /\ UNCHANGED <<pc, op, args, ret, exc, heap, skills_data, skill_categories>>

BatchAnalyze ==
    \E r \in DOMAIN frames :
       /\ frames[r].pc = "run" /\ frames[r].handler = "batch_analyze"
       /\ LET step == batch_analyze(parser, skills_data,
                                    frames[r].files[frames[r].i].filename, frames[r].content)
          IN /\ parser' = step.parser
             /\ frames' = [frames EXCEPT ![r] =
                              NextTurn(frames[r], Append(frames[r].items, step.result),
                                       BatchResponse(frames[r].files,
                                                     Append(frames[r].items, step.result)))]
       /\ UNCHANGED <<pc, op, args, ret, exc, heap, skills_data, skill_categories>>

\* after the last file the handler ranks the candidates and responds in the
\* same stretch
CompareCandidates ==
    \E r \in DOMAIN frames, order \in HashOrders :
       /\ frames[r].pc = "run" /\ frames[r].handler = "compare_candidates"
       /\ LET step == compare_candidates(parser, skills_data,
                                         frames[r].files[frames[r].i].filename,
                                         frames[r].content, frames[r].items)
          IN /\ parser' = step.parser
             /\ frames' = [frames EXCEPT ![r] =
                              IF step.turn.exc # "none"
                              THEN Ended(frames[r], HTTPError(step.turn.exc))
                              ELSE NextTurn(frames[r], step.turn.candidates,
                                            CompareResponse(
                                                rank_candidates(step.turn.candidates,
                                                                FormJobDescription,
                                                                FormRequiredSkills, order)))]
       /\ UNCHANGED <<pc, op, args, ret, exc, heap, skills_data, skill_categories>>

ServerNext ==
    \/ ReadFile
    \/ AnalyzeResume
    \/ BatchAnalyze
    \/ CompareCandidates

ServerSpec == ServerInit /\ [][ServerNext]_vars

(***************************************************************************)
(* Properties                                                              *)
(***************************************************************************)
Done(name) == pc = "done" /\ op = name

\* C1: calculate_score returns a well-formed ATSScoreResult, and never ends in
\* an exception, for every resume text, every list of extracted skills and
\* every required-keyword input (a list, the empty list or None)
C1_ScoreAlwaysReturnsResult ==
    Done("calculate_score") => exc = "none" /\ ret.kind = "ATSScoreResult"

\* C2: for every input to calculate_score the returned overall_score lies in [0, 100]
C2_OverallScoreInRange ==
    Done("calculate_score") =>
        /\ ret.kind = "ATSScoreResult"
        /\ 0 <= ret.overall_score /\ ret.overall_score <= 100 * SCALE

\* C3: with no required keywords (None or the empty list) the call completes,
\* overall_score = 0.15*formatting + 0.20*experience + 0.15*education + 0.20*skills,
\* keyword_matches = 0 and keyword_total = 0
C3_NoKeywordsAttenuatedScore ==
    (Done("calculate_score") /\ ~HasKeywords(args.required_keywords)) =>
        /\ ret.kind = "ATSScoreResult"
        /\ ret.overall_score =
              (Lookup(ret.section_scores, "formatting") \div 100) * 15
              + (Lookup(ret.section_scores, "experience") \div 100) * 20
              + (Lookup(ret.section_scores, "education") \div 100) * 15
              + (Lookup(ret.section_scores, "skills") \div 100) * 20
        /\ ret.keyword_matches = 0
        /\ ret.keyword_total = 0

\* C4: the result of every call has keyword_matches <= keyword_total,
\* keyword_total = 0 exactly when no required keywords were supplied, and
\* otherwise keyword_total = the length of the supplied list
C4_KeywordCounts ==
    Done("calculate_score") =>
        /\ exc = "none"
        /\ ret.keyword_matches <= ret.keyword_total
        /\ (ret.keyword_total = 0) <=> ~HasKeywords(args.required_keywords)
        /\ HasKeywords(args.required_keywords) =>
              ret.keyword_total = Len(Get(args.required_keywords))

\* the positions of the catalog entries whose key is a whole word of text.lower()
CatalogHits(text) ==
    {i \in DOMAIN skills_data : SearchWord(lower(text), skills_data[i].key)}

\* C5: extract_skills returns a list with, in catalog insertion order, exactly
\* one record for each catalog key that occurs as a whole word of the lowercased
\* text, and no record that is not a catalog entry
C5_ExtractReturnsCatalogMatches ==
    Done("extract_skills") =>
        /\ ret.kind = "list"
        /\ Len(ret.items) = Cardinality(CatalogHits(args.text))
        /\ \A k \in DOMAIN ret.items :
              \E i \in CatalogHits(args.text) :
                 /\ Cardinality({j \in CatalogHits(args.text) : j < i}) = k - 1
                 /\ ret.items[k].skill = skills_data[i].original
                 /\ ret.items[k].category = skills_data[i].category
                 /\ ret.items[k].weight = skills_data[i].weight

\* C6: rank_candidates returns every input candidate exactly once, ordered by
\* match_score descending, and two candidates with equal match_score keep the
\* relative order they had in the input list
C6_RankSortedAndStable ==
    Done("rank_candidates") =>
        /\ Len(ret.items) = Len(args.candidates)
        /\ \A c \in Range(args.candidates) :
              Cardinality({k \in DOMAIN ret.items : ret.items[k] = c}) = 1
        /\ \A i, j \in DOMAIN ret.items :
              i < j =>
                 /\ heap[ret.items[i]].match_score >= heap[ret.items[j]].match_score
                 /\ heap[ret.items[i]].match_score = heap[ret.items[j]].match_score
                       => ret.items[i] < ret.items[j]

\* a ranking of three candidates in which the sort moved a candidate forward
\* and two different candidates tie
C6_Witness ==
    /\ Done("rank_candidates")
    /\ Len(ret.items) = 3
    /\ ret.items # args.candidates
    /\ \E i, j \in DOMAIN heap :
          /\ i < j
          /\ heap[i].match_score = heap[j].match_score
          /\ heap[i].resume_text # heap[j].resume_text

ExpectedRules(m) ==
    (IF m.skill_match.match_percentage < 70 * SCALE THEN <<"focus_skills">> ELSE <<>>)
    \o (IF m.skill_match.match_percentage < 50 * SCALE THEN <<"training">> ELSE <<>>)
    \o (IF ~m.experience_match.meets_requirement THEN <<"experience_gap">> ELSE <<>>)
    \o (IF m.overall_score < 60 * SCALE THEN <<"poor_fit">> ELSE <<>>)
    \o (IF 60 * SCALE <= m.overall_score /\ m.overall_score < 80 * SCALE
        THEN <<"highlight">> ELSE <<>>)

\* C8: the recommendations are the firings, in this order, of (1) missing-skill
\* focus iff match% < 70, (2) training iff match% < 50, (3) experience gap iff
\* the requirement is not met, (4) general fit iff overall < 60 or highlight iff
\* 60 <= overall < 80; the strong-match fallback appears iff no rule fired, and
\* the list is never empty
C8_RecommendationRules ==
    Done("calculate_job_match_score") =>
        LET rules == [i \in DOMAIN ret.recommendations |-> ret.recommendations[i].rule]
        IN /\ rules # <<>>
           /\ ExpectedRules(ret) # <<>> => rules = ExpectedRules(ret)
           /\ ExpectedRules(ret) = <<>> <=> rules = <<"strong_match">>

\* a job match in which four rules fired, both skill rules among them
C8_Witness ==
    /\ Done("calculate_job_match_score")
    /\ Len(ret.recommendations) = 4
    /\ ret.recommendations[1].rule = "focus_skills"
    /\ ret.recommendations[2].rule = "training"

\* C9: meets_requirement = (candidate_years >= required_years) whenever
\* required_years is given, for every integer value, 0 included, and
\* meets_requirement = false when required_years is not given
C9_MeetsRequirement ==
    Done("calculate_experience_match") =>
        ret.meets_requirement =
            IF IsNone(args.required_years)
            THEN FALSE
            ELSE ret.candidate_years >= Get(args.required_years)

\* every integer that one of the two patterns matches somewhere in str
MatchedYears(str) ==
    {Match(pattern, str, p)[2] :
        <<pattern, p>> \in {x \in {1, 2} \X (1..Len(str)) : Match(x[1], str, x[2]) # NoMatch}}

\* C10: candidate_years is the maximum of all integers matched by the two
\* experience patterns, 0 if none matched; experience_level is Senior/Expert
\* from 10 years, Senior from 5, Mid-Level from 2, Junior from 1, otherwise
\* Entry Level; "5+ years of experience" with required_years = 5 gives 5,
\* Senior and meets_requirement true
C10_CandidateYearsAndLevel ==
    Done("calculate_experience_match") =>
        LET found == MatchedYears(lower(args.resume_text))
            years == ret.candidate_years
        IN /\ found = {} => years = 0
           /\ found # {} => years \in found /\ \A y \in found : y <= years
           /\ (ret.experience_level = "Senior/Expert") <=> years >= 10
           /\ (ret.experience_level = "Senior") <=> (5 <= years /\ years < 10)
           /\ (ret.experience_level = "Mid-Level") <=> (2 <= years /\ years < 5)
           /\ (ret.experience_level = "Junior") <=> (1 <= years /\ years < 2)
           /\ (ret.experience_level = "Entry Level") <=> years < 1
           /\ (/\ args.resume_text = <<"5", "+", " ", "year", "s", " ", "of", " ", "experience">>
               /\ args.required_years = <<5>>)
                 => years = 5 /\ ret.experience_level = "Senior" /\ ret.meets_requirement

\* a text in which the patterns match two different numbers of years
C10_Witness ==
    /\ Done("calculate_experience_match")
    /\ Cardinality(MatchedYears(lower(args.resume_text))) >= 2
    /\ ret.candidate_years >= 10

\* the lowercase spellings of the names of a list
LowerNames(list) == {[k \in DOMAIN list[i] |-> Lower(list[i][k])] : i \in DOMAIN list}

\* a list without repetitions whose elements are those of S
ListsSet(list, S) == Range(list) = S /\ Len(list) = Cardinality(S)

\* C11: calculate_skill_match compares the lowercased name sets: matched =
\* resume & job, missing = job - resume, extra = resume - job; matched and
\* missing partition the job set (matched_count + |missing| = required_count),
\* extra is disjoint from the job set, match_percentage = matched_count /
\* required_count * 100 lies in [0, 100] and is 0 for an empty job set;
\* (['Python','React'], ['python','aws']) gives 50.0, matched {python}, missing {aws}
C11_SkillMatchSets ==
    Done("calculate_skill_match") =>
        LET resume == LowerNames(args.resume_skills)
            job == LowerNames(args.job_skills)
        IN /\ ListsSet(ret.matched_skills, resume \cap job)
           /\ ListsSet(ret.missing_skills, job \ resume)
           /\ ListsSet(ret.extra_skills, resume \ job)
           /\ ret.required_count = Cardinality(job)
           /\ ret.matched_count = Cardinality(resume \cap job)
           /\ ret.matched_count + Len(ret.missing_skills) = ret.required_count
           /\ Range(ret.matched_skills) \cap Range(ret.missing_skills) = {}
           /\ Range(ret.matched_skills) \cup Range(ret.missing_skills) = job
           /\ Range(ret.extra_skills) \cap job = {}
           /\ 0 <= ret.match_percentage /\ ret.match_percentage <= 100 * SCALE
           /\ ret.match_percentage * ret.required_count = ret.matched_count * 100 * SCALE
           /\ job = {} => ret.match_percentage = 0
           /\ (/\ args.resume_skills = <<<<"Python">>, <<"React">>>>
               /\ args.job_skills = <<<<"python">>, <<"aws">>>>)
                 => /\ ret.match_percentage = 50 * SCALE
                    /\ ret.matched_skills = <<<<"python">>>>
                    /\ ret.missing_skills = <<<<"aws">>>>

\* the example call, whose names match only after lowercasing
C11_Witness ==
    /\ Done("calculate_skill_match")
    /\ args.resume_skills = <<<<"Python">>, <<"React">>>>
    /\ args.job_skills = <<<<"python">>, <<"aws">>>>
    /\ ret.match_percentage = 50 * SCALE
    /\ ret.extra_skills = <<<<"react">>>>

\* the lowercase names of a list of found-skill records
FoundNames(found) == LowerNames([i \in DOMAIN found |-> found[i].skill])

\* coverage% never decreases when one more skill is added to found, and it is 0
\* when required is empty or disjoint from found
CoverageMonotoneAndZero ==
    /\ \A extra \in CatalogRecords, order \in HashOrders :
          calculate_skill_coverage(Append(args.found_skills, extra),
                                   args.required_skills, order).coverage >= ret.coverage
    /\ LowerNames(args.required_skills) \cap FoundNames(args.found_skills) = {}
          => ret.coverage = 0

\* C12: for a fixed required list coverage% never decreases when skills are
\* added to found; coverage = 100 if and only if the matched set equals the
\* required set; coverage = 0 when required is empty or disjoint from found
C12_CoverageAsClaimed ==
    Done("calculate_skill_coverage") =>
        /\ CoverageMonotoneAndZero
        /\ ret.coverage = 100 * SCALE
              <=> Range(ret.matched) = LowerNames(args.required_skills)

\* C12 as amended: coverage% never decreases when skills are added to found;
\* for a non-empty required list coverage = 100 if and only if the matched set
\* equals the required set; coverage = 0 when required is empty (the matched
\* set then equals the required set) or disjoint from found
C12_CoverageAmended ==
    Done("calculate_skill_coverage") =>
        /\ CoverageMonotoneAndZero
        /\ args.required_skills # <<>> =>
              (ret.coverage = 100 * SCALE
                  <=> Range(ret.matched) = LowerNames(args.required_skills))
        /\ args.required_skills = <<>> =>
              ret.coverage = 0 /\ Range(ret.matched) = LowerNames(args.required_skills)

\* full coverage of two required names by found skills spelled in another case
C12_Witness ==
    /\ Done("calculate_skill_coverage")
    /\ Len(args.found_skills) = 2
    /\ args.required_skills = <<<<"python">>, <<"aws">>>>
    /\ ret.coverage = 100 * SCALE

TokenSet(text) == Range(preprocess_text(text))

\* C14: jaccard_similarity(A, B) is |A n B| / |A u B|, symmetric, within
\* [0, 1], 0.0 for disjoint non-empty sets and 0.0 when the union is empty
C14_JaccardSymmetricBounded ==
    Done("calculate_text_similarity") =>
        LET A == TokenSet(args.text1)
            B == TokenSet(args.text2)
        IN /\ (A \cup B # {}) => ret.jaccard_similarity * Cardinality(A \cup B)
                                    = SCALE * Cardinality(A \cap B)
           /\ ret.jaccard_similarity
                 = calculate_text_similarity(args.text2, args.text1).jaccard_similarity
           /\ 0 <= ret.jaccard_similarity /\ ret.jaccard_similarity <= SCALE
           /\ (A # {} /\ B # {} /\ A \cap B = {}) => ret.jaccard_similarity = 0
           /\ (A \cup B = {}) => ret.jaccard_similarity = 0

\* two token sets of different sizes that share one token: one third
C14_Witness ==
    /\ Done("calculate_text_similarity")
    /\ TokenSet(args.text1) = {<<"python">>}
    /\ TokenSet(args.text2) = {<<"python">>, <<"aws">>, <<"team">>}
    /\ 3 * ret.jaccard_similarity = SCALE

\* C15 as stated: for two identical texts calculate_text_similarity yields
\* cosine_similarity = 1.0 and jaccard_similarity = 1.0
C15_IdenticalAsClaimed ==
    (Done("calculate_text_similarity") /\ args.text1 = args.text2) =>
        /\ ret.cosine_similarity = SCALE
        /\ ret.jaccard_similarity = SCALE

\* C15: for two identical texts with at least one token after preprocessing
\* calculate_text_similarity yields cosine_similarity = 1.0 and
\* jaccard_similarity = 1.0, and two equal non-empty token sets yield
\* jaccard_similarity = 1.0; for two identical texts without a token both
\* are 0.0
C15_IdenticalAmended ==
    Done("calculate_text_similarity") =>
        /\ (args.text1 = args.text2 /\ preprocess_text(args.text1) # <<>>) =>
              /\ ret.cosine_similarity = SCALE
              /\ ret.jaccard_similarity = SCALE
        /\ (TokenSet(args.text1) = TokenSet(args.text2) /\ TokenSet(args.text1) # {}) =>
              ret.jaccard_similarity = SCALE
        /\ (args.text1 = args.text2 /\ preprocess_text(args.text1) = <<>>) =>
              /\ ret.cosine_similarity = 0
              /\ ret.jaccard_similarity = 0

\* an identical pair of texts with a repeated token and similarity 1.0
C15_Witness ==
    /\ Done("calculate_text_similarity")
    /\ args.text1 = args.text2
    /\ preprocess_text(args.text1) = <<<<"python">>, <<"python">>>>
    /\ ret.cosine_similarity = SCALE /\ ret.jaccard_similarity = SCALE

SubScorers ==
    {"_score_formatting", "_score_keywords", "_score_experience", "_score_education",
     "_score_skills"}

\* C17: every ATS sub-score (formatting, keywords, experience, education,
\* skills) lies in [0, 100] for every input; the keywords sub-score stays
\* >= 0 after the keyword-density penalty
C17_SubScoresInRange ==
    (pc = "done" /\ op \in SubScorers) =>
        /\ ret.kind = "tuple"
        /\ 0 <= ret.score /\ ret.score <= 100 * SCALE

\* C18: no call of a scoring operation changes an object visible to the
\* caller: the caller's candidate records, the arguments and the fields of
\* the shared components are the same after every step
C18_CallsChangeNothing ==
    [][/\ heap' = heap
       /\ args' = args
       /\ skills_data' = skills_data
       /\ skill_categories' = skill_categories]_vars

\* the 90/80/70/60 banding
Grade(overall_score) ==
    IF overall_score >= 90 * SCALE THEN "A"
    ELSE IF overall_score >= 80 * SCALE THEN "B"
    ELSE IF overall_score >= 70 * SCALE THEN "C"
    ELSE IF overall_score >= 60 * SCALE THEN "D"
    ELSE "F"

\* C19: get_grade(overall_score) of an ATSScoreCalculator ends without an
\* error for every score in [0, 100] and returns the letter of the
\* 90/80/70/60 banding
C19_GetGradeIsTotal ==
    Done("get_grade") =>
        /\ exc = "none"
        /\ ret = [kind |-> "str", value |-> Grade(args.overall_score)]

\* batch_analyze served alone: the turns of its loop from file i on, on a
\* parser no other request touches
RECURSIVE BatchAlone(_, _, _, _)
BatchAlone(self_parser, files, i, results) ==
    IF i > Len(files) THEN BatchResponse(files, results)
    ELSE LET step == batch_analyze(self_parser, skills_data, files[i].filename,
                                   files[i].file_bytes)
         IN BatchAlone(step.parser, files, i + 1, Append(results, step.result))

\* compare_candidates served alone, from file i on: the responses it can give
RECURSIVE CompareAlone(_, _, _, _)
CompareAlone(self_parser, files, i, candidates) ==
    IF i > Len(files)
    THEN {CompareResponse(rank_candidates(candidates, FormJobDescription,
                                          FormRequiredSkills, order)) : order \in HashOrders}
    ELSE LET step == compare_candidates(self_parser, skills_data, files[i].filename,
                                        files[i].file_bytes, candidates)
         IN IF step.turn.exc # "none" THEN {HTTPError(step.turn.exc)}
            ELSE CompareAlone(step.parser, files, i + 1, step.turn.candidates)

\* the responses the request of coroutine f can get when it is the only
\* request the server ever serves
ResponsesAlone(f) ==
    CASE f.handler = "analyze_resume" ->
             {analyze_resume(ResumeParserInit, skills_data, f.files[1].filename,
                             f.files[1].file_bytes).response}
      [] f.handler = "batch_analyze" -> {BatchAlone(ResumeParserInit, f.files, 1, <<>>)}
      [] f.handler = "compare_candidates" -> CompareAlone(ResumeParserInit, f.files, 1, <<>>)

\* C20: under every interleaving of concurrent analyze-resume, batch-analyze
\* and compare-candidates requests that share one parser, each request's
\* response is the response it gets when served alone
C20_RequestsIndependent ==
    \A r \in DOMAIN frames :
        frames[r].pc = "done" => frames[r].response \in ResponsesAlone(frames[r])

\* request 1 parsed its empty text file after request 2 had stored the text
\* of its PDF in the shared parser, and still answers that no text was found
C20_Witness ==
    /\ Len(frames) = 2
    /\ frames[1].pc = "done" /\ frames[2].pc = "done"
    /\ frames[1].handler = "analyze_resume"
    /\ frames[1].files = <<[filename |-> ".txt", file_bytes |-> <<>>]>>
    /\ frames[2].handler = "batch_analyze"
    /\ frames[2].files = <<[filename |-> ".PDF", file_bytes |-> <<"Python">>]>>
    /\ frames[2].response.failed = 1
    /\ parser.file_type = Some(".txt")
    /\ frames[1].response = HTTPError("HTTPException(400, Could not extract text from resume)")

\* C21: in the result of calculate_score a sub-score >= 80 puts its section
\* in strengths as "Excellent", a sub-score < 60 puts it in weaknesses as
\* "Needs improvement", a sub-score in [60, 80) in neither; no section is in
\* both lists, and a section that was not scored is in neither
C21_StrengthsAndWeaknesses ==
    Done("calculate_score") =>
        /\ ret.kind = "ATSScoreResult"
        /\ \A i \in DOMAIN ret.section_scores :
              LET e == ret.section_scores[i]
              IN /\ (e.score >= 80 * SCALE)
                       <=> (<<e.component, "Excellent">> \in Range(ret.strengths))
                 /\ (e.score < 60 * SCALE)
                       <=> (<<e.component, "Needs improvement">> \in Range(ret.weaknesses))
        /\ \A s \in Range(ret.strengths), w \in Range(ret.weaknesses) : s[1] # w[1]
        /\ \A x \in Range(ret.strengths) \cup Range(ret.weaknesses) :
              HasKey(ret.section_scores, x[1])

\* the number of skills of the list that come before skill i when the list
\* is ordered by weight descending, equal weights in the order of the list
RankByWeight(skills, i) ==
    Cardinality({j \in DOMAIN skills :
                    \/ skills[j].weight > skills[i].weight
                    \/ skills[j].weight = skills[i].weight /\ j < i})

\* C22: get_skill_statistics returns the zero-valued record for an empty
\* list; otherwise total_skills is the number of skills, the counts of
\* category_distribution sum to it, unique_categories is the number of its
\* keys, and top_skills holds the min(10, total_skills) first names by weight
\* descending, equal weights in input order
C22_SkillStatistics ==
    Done("get_skill_statistics") =>
        LET skills == args.skills
            dist == ret.category_distribution
        IN /\ (skills = <<>>) =>
                 /\ ret.total_skills = 0 /\ ret.unique_categories = 0
                 /\ dist = <<>> /\ ret.top_skills = <<>>
                 /\ ret.average_weight.sum = 0
           /\ (skills # <<>>) =>
                 /\ ret.total_skills = Len(skills)
                 /\ SumOver(dist, DOMAIN dist) = ret.total_skills
                 /\ ret.unique_categories = Cardinality(DOMAIN dist)
                 /\ Len(ret.top_skills) = (IF Len(skills) < 10 THEN Len(skills) ELSE 10)
                 /\ \A k \in DOMAIN ret.top_skills :
                       \E i \in DOMAIN skills :
                          /\ RankByWeight(skills, i) = k - 1
                          /\ ret.top_skills[k] = skills[i].skill

\* eleven skills, two categories counted more than once, ten names kept and
\* the heaviest skill, third in the input, first
C22_Witness ==
    /\ Done("get_skill_statistics")
    /\ Len(args.skills) = 11
    /\ Len(ret.top_skills) = 10
    /\ ret.top_skills[1] = <<"AWS">> /\ ret.top_skills[4] = <<"Python">>
    /\ ret.top_skills[5] = <<"React">>
    /\ ret.unique_categories = 3

\* 1 when the condition holds, else 0
Ind(cond) == IF cond THEN 1 ELSE 0

\* C23: _score_experience returns 50 with exactly one recommendation when the
\* text has none of 'experience', 'employment', 'work history'; otherwise it
\* returns 100 less 20 for no date range, less 15 for fewer than 5 of the
\* action verbs, less 15 for no quantified achievement, one recommendation
\* for each deduction
C23_ExperienceRules ==
    Done("_score_experience") =>
        LET text_lower == lower(args.text)
            present == \/ Contains(text_lower, <<"experience">>)
                       \/ Contains(text_lower, <<"employment">>)
                       \/ Contains(text_lower, <<"work", " ", "history">>)
            no_dates == Ind(~has_dates(args.text))
            few_verbs == Ind(Cardinality({v \in Range(action_verbs) :
                                             Contains(text_lower, v)}) < 5)
            no_numbers == Ind(~has_numbers(args.text))
        IN /\ ~present => /\ ret.score = 50 * SCALE
                          /\ ret.recommendations = <<"add_experience_section">>
           /\ present => /\ ret.score = (100 - 20 * no_dates - 15 * few_verbs
                                             - 15 * no_numbers) * SCALE
                         /\ Len(ret.recommendations) = no_dates + few_verbs + no_numbers
                         /\ ("include_dates" \in Range(ret.recommendations)) <=> no_dates = 1
                         /\ ("action_verbs" \in Range(ret.recommendations)) <=> few_verbs = 1
                         /\ ("quantify" \in Range(ret.recommendations)) <=> no_numbers = 1

\* a text with the keyword and a date range but too few verbs and no number:
\* two of the three deductions, 70
C23_Witness ==
    /\ Done("_score_experience")
    /\ Contains(lower(args.text), <<"experience">>)
    /\ has_dates(args.text) /\ ~has_numbers(args.text)
    /\ ret.score = 70 * SCALE
    /\ ret.recommendations = <<"action_verbs", "quantify">>

\* the uploaded file of an analyze-resume request is of a supported format
\* and the parser yields the empty text for it
EmptyTextUpload(f) ==
    /\ f.handler = "analyze_resume"
    /\ LowerSuffix(f.files[1].filename) \in SUPPORTED_FORMATS
    /\ f.files[1].file_bytes = <<>>

\* C24: when the parser yields empty text for the uploaded file, the
\* analyze-resume handler responds with status 400, not with status 500
C24_EmptyTextIs400 ==
    \A r \in DOMAIN frames :
        (frames[r].pc = "done" /\ EmptyTextUpload(frames[r])) =>
            frames[r].response.status_code = 400

\* the entry batch_analyze gives a file that is the only file of the only
\* request
EntryAlone(file) ==
    batch_analyze(ResumeParserInit, skills_data, file.filename, file.file_bytes).result

\* parse_bytes raises for the file or yields the empty text
FailsToParse(file) ==
    \/ LowerSuffix(file.filename) \notin SUPPORTED_FORMATS
    \/ file.file_bytes = <<>>

\* C25: batch-analyze produces exactly one result entry per uploaded file,
\* in upload order: a file that fails gets a success=false entry, the entry
\* of a file is the one it gets when uploaded alone, and the response has
\* processed + failed = total_files
C25_OneEntryPerFile ==
    \A r \in DOMAIN frames :
        frames[r].handler = "batch_analyze" =>
            /\ frames[r].pc # "done" => Len(frames[r].items) = frames[r].i - 1
            /\ \A k \in DOMAIN frames[r].items :
                  /\ frames[r].items[k].filename = frames[r].files[k].filename
                  /\ frames[r].items[k] = EntryAlone(frames[r].files[k])
                  /\ FailsToParse(frames[r].files[k]) => ~frames[r].items[k].success
            /\ frames[r].pc = "done" =>
                  /\ frames[r].response.kind = "dict"
                  /\ frames[r].response.results = frames[r].items
                  /\ Len(frames[r].response.results) = Len(frames[r].files)
                  /\ frames[r].response.total_files = Len(frames[r].files)
                  /\ frames[r].response.processed + frames[r].response.failed
                        = frames[r].response.total_files

\* a batch of an unsupported file, a PDF and an empty text file has answered:
\* the first file raised, the last one had no text, and all three have their
\* entry
C25_Witness ==
    \E r \in DOMAIN frames :
        /\ frames[r].handler = "batch_analyze" /\ frames[r].pc = "done"
        /\ frames[r].files = <<[filename |-> ".exe", file_bytes |-> <<>>],
                               [filename |-> ".PDF", file_bytes |-> <<"Python">>],
                               [filename |-> ".txt", file_bytes |-> <<>>]>>
        /\ Len(frames[r].response.results) = 3
        /\ frames[r].response.results[1].error # "Could not extract text"
        /\ frames[r].response.results[3] = Failed(".txt", "Could not extract text")
        /\ frames[r].response.failed = 3

\* the rules that wrote the recommendations of a job match
RulesOf(match) == {match.recommendations[i].rule : i \in DOMAIN match.recommendations}

\* a job match computed without required years: the requirement is not met,
\* the experience component is 50 of its quarter, the score is at most 87.5,
\* the experience-gap message is there and the strong-match message is not
WithoutRequiredYears(match) ==
    /\ ~match.experience_match.meets_requirement
    /\ IsNone(match.experience_match.required_years)
    /\ match.overall_score
          = match.text_similarity.overall_similarity * 25
            + (match.skill_match.match_percentage \div 100) * 50
            + ((50 * SCALE) \div 100) * 25
    /\ 2 * match.overall_score <= 175 * SCALE
    /\ Recommendation("experience_gap", <<>>) \in Range(match.recommendations)
    /\ "strong_match" \notin RulesOf(match)

WithoutJobSkills(match) ==
    /\ match.skill_match.match_percentage = 0
    /\ match.skill_match.required_count = 0
    /\ match.overall_score <= 50 * SCALE
    /\ match.match_level = "Poor Match"

C28_SubScoreFloors ==
    /\ Done("_score_formatting") => ret.score >= 20 * SCALE
    /\ Done("_score_experience") => ret.score >= 50 * SCALE
    /\ Done("_score_education") => ret.score >= 50 * SCALE

\* a short text with a bullet and a table bar, without e-mail address, phone
\* number and section headers: every deduction a short text can get, 20
C28_Witness ==
    /\ Done("_score_formatting")
    /\ Contains(args.text, <<"bullet">>) /\ Contains(args.text, <<"|">>)
    /\ ret.score = 20 * SCALE
    /\ Len(ret.recommendations) = 6

\* C29: for every pair of texts calculate_text_similarity returns
\* jaccard_similarity <= overlap_score, with equality when the tokens of the
\* resume are a subset of the tokens of the job
C29_JaccardBelowOverlap ==
    Done("calculate_text_similarity") =>
        /\ ret.jaccard_similarity <= ret.overlap_score
        /\ TokenSet(args.text1) \subseteq TokenSet(args.text2) =>
               ret.jaccard_similarity = ret.overlap_score

\* a resume whose tokens are some of the job's tokens, not all: the two
\* measures are the same fraction, strictly between 0 and 1
C29_Witness ==
    /\ Done("calculate_text_similarity")
    /\ TokenSet(args.text1) \subseteq TokenSet(args.text2)
    /\ TokenSet(args.text1) # TokenSet(args.text2)
    /\ ret.jaccard_similarity = ret.overlap_score
    /\ ret.overlap_score > 0 /\ ret.overlap_score < SCALE

\* the number of times key is listed in skill_categories, over all categories
RECURSIVE Listed(_, _, _)
Listed(cats, names, key) ==
    IF names = {} THEN 0
    ELSE LET c == CHOOSE n \in names : TRUE
         IN Cardinality({i \in DOMAIN cats[c] : cats[c][i] = key})
            + Listed(cats, names \ {c}, key)

\* C30: after any sequence of catalog rows processed by load_skills_database,
\* repeated names and repeated loads included, each key of skills_data is
\* listed exactly once in skill_categories, under the category skills_data
\* records for it, and every entry of skill_categories is a key of skills_data
C30_IndexesAgree ==
    /\ \A i \in DOMAIN skills_data :
          /\ Listed(skill_categories, DOMAIN skill_categories, skills_data[i].key) = 1
          /\ skills_data[i].category \in DOMAIN skill_categories
          /\ skills_data[i].key \in Range(skill_categories[skills_data[i].category])
    /\ \A c \in DOMAIN skill_categories :
          \A k \in DOMAIN skill_categories[c] :
              \E i \in DOMAIN skills_data : skills_data[i].key = skill_categories[c][k]
====
